---- MODULE Spec2Model ----
(***************************************************************************)
(* A model of SwaggerMcp: the lifecycle coordinator (SwaggerMcpServer),    *)
(* the duplicate-operationId and host repair passes, the normalizer's      *)
(* base URL and operation extraction, the tool-name generation and         *)
(* collision handling, the input shape of a tool, the request the proxy    *)
(* builds and its failure classification (ApiProxy), and the credentials   *)
(* the AuthManager adds.                                                   *)
(*                                                                         *)
(* A JavaScript string is modelled as the sequence of its characters, each *)
(* character a one-character string, so that length, split, join, case     *)
(* conversion and substring are computed as the code computes them.        *)
(***************************************************************************)
EXTENDS Integers, Sequences, FiniteSets, TLC

VARIABLES
    appConfig,      \* the configuration the process was started with
    startPc,        \* position of SwaggerMcpServer.start()
    swaggerDoc,     \* this.swaggerDoc (NoDoc before the first load)
    apiProxy,       \* this.apiProxy   (NoProxy before the first load)
    tools,          \* this.tools: tool name -> tool metadata
    registered,     \* handlers registered with the MCP server: name -> metadata
    connected,      \* the STDIO transport is connected
    timerActive,    \* the setInterval refresh timer is installed
    loads,          \* loadSwaggerDocument() calls in flight
    nextLoadId,     \* number of loadSwaggerDocument() calls started so far
    calls,          \* tool invocations awaiting their HTTP response
    lastResult,     \* what the last finished invocation gave the transport
    unhandledRejection, \* some rejected promise was handled by nobody
    process,        \* "running" or "terminated"
    authManager,    \* this.authManager.authConfig
    lastTokenUpdate, \* history: the argument of the last updateToken call
    probe           \* a component operation applied on its own: input and result

vars == << appConfig, startPc, swaggerDoc, apiProxy, tools, registered,
           connected, timerActive, loads, nextLoadId, calls, lastResult,
           unhandledRejection, process, authManager, lastTokenUpdate, probe >>

-----------------------------------------------------------------------------
(* Strings *)

UpperChars == << "A","B","C","D","E","F","G","H","I","J","K","L","M",
                 "N","O","P","Q","R","S","T","U","V","W","X","Y","Z" >>
LowerChars == << "a","b","c","d","e","f","g","h","i","j","k","l","m",
                 "n","o","p","q","r","s","t","u","v","w","x","y","z" >>
DigitChars == << "0","1","2","3","4","5","6","7","8","9" >>

Range(s) == { s[i] : i \in DOMAIN s }

UpperSet == Range(UpperChars)
LowerSet == Range(LowerChars)
DigitSet == Range(DigitChars)

\* the lower-case letter of each upper-case letter, and the reverse
lowerOf == [ c \in UpperSet |->
               LowerChars[CHOOSE i \in DOMAIN UpperChars : UpperChars[i] = c] ]
upperOf == [ c \in LowerSet |->
               UpperChars[CHOOSE i \in DOMAIN LowerChars : LowerChars[i] = c] ]

toLowerChar(c) == IF c \in UpperSet THEN lowerOf[c] ELSE c
toUpperChar(c) == IF c \in LowerSet THEN upperOf[c] ELSE c

toLowerCase(s) == [ i \in 1..Len(s) |-> toLowerChar(s[i]) ]
toUpperCase(s) == [ i \in 1..Len(s) |-> toUpperChar(s[i]) ]

\* s.includes(c) for a one-character c
includes(s, c) == c \in Range(s)

\* s.substring(0, n)
substring(s, n) == SubSeq(s, 1, IF n < Len(s) THEN n ELSE Len(s))

\* s.slice(1), s.slice(1, -1)
sliceFrom1(s) == SubSeq(s, 2, Len(s))
sliceInner(s) == SubSeq(s, 2, Len(s) - 1)

startsWithChar(s, c) == Len(s) > 0 /\ s[1] = c
endsWithChar(s, c) == Len(s) > 0 /\ s[Len(s)] = c

\* s.startsWith(p)
startsWith(s, p) == Len(s) >= Len(p) /\ SubSeq(s, 1, Len(p)) = p

\* s.split(c) for a one-character separator: the pieces, empty ones included
RECURSIVE split(_, _)
split(s, c) ==
    IF ~ includes(s, c)
    THEN << s >>
    ELSE LET i == CHOOSE k \in DOMAIN s :
                      s[k] = c /\ \A j \in 1..(k-1) : s[j] # c
         IN  << SubSeq(s, 1, i - 1) >> \o split(SubSeq(s, i + 1, Len(s)), c)

\* parts.join(sep)
RECURSIVE join(_, _)
join(parts, sep) ==
    IF Len(parts) = 0 THEN << >>
    ELSE IF Len(parts) = 1 THEN parts[1]
    ELSE parts[1] \o sep \o join(Tail(parts), sep)

\* `${n}` for a number n >= 0
RECURSIVE numberToString(_)
numberToString(n) ==
    IF n < 10 THEN << DigitChars[n + 1] >>
    ELSE numberToString(n \div 10) \o << DigitChars[(n % 10) + 1] >>

\* .replace(/[^a-zA-Z0-9\-]/g, '')
ValidNameChars == LowerSet \cup UpperSet \cup DigitSet \cup { "-" }
removeInvalidChars(s) == SelectSeq(s, LAMBDA c : c \in ValidNameChars)

\* .replace(/c+/g, 'c') for a character c: every run of c becomes one c
collapseChar(s, c) ==
    LET keep == { i \in DOMAIN s : ~ (s[i] = c /\ i > 1 /\ s[i-1] = c) }
        RECURSIVE pick(_)
        pick(i) == IF i > Len(s) THEN << >>
                   ELSE (IF i \in keep THEN << s[i] >> ELSE << >>) \o pick(i + 1)
    IN  pick(1)

\* .replace(/-+/g, '-')
collapseHyphens(s) == collapseChar(s, "-")

\* .replace(/^-|-$/g, ''): at most one leading and one trailing hyphen go
trimHyphens(s) ==
    LET a == IF startsWithChar(s, "-") THEN Tail(s) ELSE s
    IN  IF endsWithChar(a, "-") THEN SubSeq(a, 1, Len(a) - 1) ELSE a

\* n copies of the character c
repeatChar(c, n) == [ i \in 1..n |-> c ]

-----------------------------------------------------------------------------
(* Documents.  A document is                                               *)
(*   [swagger, openapi : string ("" when the field is absent),             *)
(*    scheme  : schemes[0] of a 2.0 document ("" when schemes is absent),  *)
(*    host, basePath : string ("" when absent),                            *)
(*    server  : servers[0].url of a 3.x document ("" when no servers),     *)
(*    paths   : sequence, in document order, of                            *)
(*              [path : string, ops : verb -> operation object]]           *)
(* and an operation object is [operationId : string ("" when absent),      *)
(* convertThrows : whether SchemaConverter.convert throws on its schemas]. *)

get     == << "g","e","t" >>
post    == << "p","o","s","t" >>
put     == << "p","u","t" >>
delete  == << "d","e","l","e","t","e" >>
patch   == << "p","a","t","c","h" >>
options == << "o","p","t","i","o","n","s" >>
head    == << "h","e","a","d" >>
trace   == << "t","r","a","c","e" >>

\* the verb list of the repair pass and of the 2.0 parser
methods == << get, post, put, delete, patch, options, head >>

\* the verb list of the 3.x parser
methodsOpenApi3 == << get, post, put, delete, patch, options, head, trace >>

\* pathItem[method], when it is there
hasOperation(document, i, method) == method \in DOMAIN document.paths[i].ops
operationAt(document, i, method) == document.paths[i].ops[method]

\* The places << i, method >> the two nested loops visit, in their order:
\* paths in document order, verbs in the order of the list, absent ones skipped.
traversal(document, verbs) ==
    LET n == Len(document.paths)
        k == Len(verbs)
        all == [ x \in 1..(n * k) |->
                   << ((x - 1) \div k) + 1, verbs[((x - 1) % k) + 1] >> ]
    IN  SelectSeq(all, LAMBDA s : hasOperation(document, s[1], s[2]))

-----------------------------------------------------------------------------
(* SwaggerMcpServer.fixDuplicateOperationIds *)

EmptyMap == [ x \in {} |-> 0 ]

\* First pass: collect all operationIds and count the duplicates
RECURSIVE collectOperationIds(_, _, _, _)
collectOperationIds(document, places, operationIds, duplicateCount) ==
    IF places = << >>
    THEN [ operationIds |-> operationIds, duplicateCount |-> duplicateCount ]
    ELSE LET operationId ==
                 operationAt(document, places[1][1], places[1][2]).operationId
         IN  IF operationId = << >>
             THEN collectOperationIds(document, Tail(places),
                                      operationIds, duplicateCount)
             ELSE IF operationId \in operationIds
             THEN LET count == IF operationId \in DOMAIN duplicateCount
                               THEN duplicateCount[operationId] ELSE 1
                  IN  collectOperationIds(document, Tail(places), operationIds,
                          (operationId :> (count + 1)) @@ duplicateCount)
             ELSE collectOperationIds(document, Tail(places),
                          operationIds \cup { operationId }, duplicateCount)

withSuffix(operationId, suffix) ==
    operationId \o << "_" >> \o numberToString(suffix)

\* the while loop: the first suffix from `suffix` on whose identifier is free
RECURSIVE uniqueSuffix(_, _, _)
uniqueSuffix(operationId, suffix, taken) ==
    IF withSuffix(operationId, suffix) \in taken
    THEN uniqueSuffix(operationId, suffix + 1, taken)
    ELSE suffix

\* Second pass: rename the second and later occurrences
RECURSIVE renameDuplicates(_, _, _, _, _)
renameDuplicates(document, places, duplicateCount, operationIds, processedIds) ==
    IF places = << >>
    THEN document
    ELSE LET i == places[1][1]
             method == places[1][2]
             originalOperationId == operationAt(document, i, method).operationId
         IN  IF originalOperationId # << >>
                /\ originalOperationId \in DOMAIN duplicateCount
             THEN IF originalOperationId \in processedIds
                  THEN LET newOperationId ==
                               withSuffix(originalOperationId,
                                   uniqueSuffix(originalOperationId, 2,
                                       operationIds \cup processedIds))
                       IN  renameDuplicates(
                               [ document EXCEPT
                                   !.paths[i].ops[method].operationId =
                                       newOperationId ],
                               Tail(places), duplicateCount,
                               operationIds \cup { newOperationId },
                               processedIds \cup { newOperationId })
                  ELSE renameDuplicates(document, Tail(places), duplicateCount,
                           operationIds,
                           processedIds \cup { originalOperationId })
             ELSE renameDuplicates(document, Tail(places), duplicateCount,
                      operationIds, processedIds)

fixDuplicateOperationIds(document) ==
    LET places == traversal(document, methods)
        first == collectOperationIds(document, places, {}, EmptyMap)
    IN  renameDuplicates(document, places, first.duplicateCount,
                         first.operationIds, {})

-----------------------------------------------------------------------------
(* SwaggerMcpServer.fixHostFieldFormat *)

\* A host repair that leaves runs of '/' in the new basePath
fixHostFieldFormatKeepingSlashes(document) ==
    IF document.swagger = << "2", ".", "0" >>
       /\ document.host # << >> /\ includes(document.host, "/")
    THEN LET parts == split(document.host, "/")
         IN  [ document EXCEPT !.host = parts[1],
                               !.basePath = << "/" >> \o join(Tail(parts), << "/" >>)
                                            \o document.basePath ]
    ELSE document

fixHostFieldFormat(document) ==
    IF document.swagger = << "2", ".", "0" >>
       /\ document.host # << >> /\ includes(document.host, "/")
    THEN LET parts == split(document.host, "/")
             actualHost == parts[1]
             pathPart == << "/" >> \o join(Tail(parts), << "/" >>)
             combinedBasePath == pathPart \o document.basePath
         IN  [ document EXCEPT !.host = actualHost,
                               !.basePath = collapseChar(combinedBasePath, "/") ]
    ELSE document

-----------------------------------------------------------------------------
(* parsers: SwaggerParser, OpenApi2Parser, OpenApi3Parser *)

https == << "h","t","t","p","s" >>
httpPrefix == << "h","t","t","p",":","/","/" >>
httpsPrefix == << "h","t","t","p","s",":","/","/" >>
localhost == httpPrefix \o << "l","o","c","a","l","h","o","s","t" >>

\* process.env.SWAGGER_URL when the document is read from a file
NoUrl == [ none |-> TRUE ]

\* OpenApi2Parser.extractBaseUrl; swaggerUrl is what new URL(SWAGGER_URL) gives
extractBaseUrl(document, swaggerUrl) ==
    LET scheme == IF document.scheme # << >> THEN document.scheme ELSE https
        host == document.host
        basePath == document.basePath
    IN  IF (host = << >> \/ ~ includes(host, ".")) /\ swaggerUrl # NoUrl
        THEN scheme \o << ":","/","/" >> \o swaggerUrl.host \o basePath
        ELSE scheme \o << ":","/","/" >> \o host \o basePath

\* OpenApi3Parser.extractBaseUrl, for a first server without variables
extractBaseUrlOpenApi3(document, swaggerUrl) ==
    IF document.server = << >>
    THEN localhost
    ELSE LET url == document.server
             resolved == IF startsWithChar(url, "/")
                         THEN IF swaggerUrl # NoUrl
                              THEN swaggerUrl.protocol \o << "/","/" >>
                                       \o swaggerUrl.host \o url
                              ELSE localhost \o url
                         ELSE url
         IN  IF ~ startsWith(resolved, httpPrefix) /\ ~ startsWith(resolved, httpsPrefix)
             THEN httpsPrefix \o resolved
             ELSE resolved

\* SwaggerParser.detectVersion; "unknown" stands for the thrown error
detectVersion(document) ==
    IF document.swagger = << "2", ".", "0" >> THEN "2.0"
    ELSE IF document.openapi # << >>
            /\ startsWith(document.openapi, << "3", ".", "0" >>) THEN "3.0"
    ELSE IF document.openapi # << >>
            /\ startsWith(document.openapi, << "3", ".", "1" >>) THEN "3.1"
    ELSE "unknown"

\* SwaggerParser.generateOperationId
generateOperationId(method, path) ==
    LET pathParts ==
            LET nonEmpty == SelectSeq(split(path, "/"), LAMBDA part : Len(part) > 0)
            IN  [ x \in 1..Len(nonEmpty) |->
                    IF startsWithChar(nonEmpty[x], "{") /\ endsWithChar(nonEmpty[x], "}")
                    THEN sliceInner(nonEmpty[x])
                    ELSE nonEmpty[x] ]
        cased == [ x \in 1..Len(pathParts) |->
                    IF x = 1 THEN pathParts[x]
                    ELSE (IF Len(pathParts[x]) > 0
                          THEN << toUpperChar(pathParts[x][1]) >> ELSE << >>)
                         \o sliceFrom1(pathParts[x]) ]
    IN  toLowerCase(method) \o join(cased, << >>)

\* operation.requestBody when the operation declares no body
NoBody == [ none |-> TRUE ]

\* pathItem.parameters || []
pathParameters(document, i) ==
    IF "parameters" \in DOMAIN document.paths[i]
    THEN document.paths[i].parameters ELSE << >>

\* A Map that keeps the value set first under a key
RECURSIVE uniqueParamsKeepingFirst(_, _)
uniqueParamsKeepingFirst(allParams, unique) ==
    IF allParams = << >> THEN unique
    ELSE LET param == allParams[1]
             same == { k \in DOMAIN unique : unique[k].in = param.in
                                               /\ unique[k].name = param.name }
         IN  uniqueParamsKeepingFirst(Tail(allParams),
                 IF same = {} THEN Append(unique, param) ELSE unique)

\* uniqueParams.set(`${param.in}-${param.name}`, param) for each parameter in
\* turn, and then Array.from(uniqueParams.values()): a key set again keeps
\* its place and takes the new value
RECURSIVE uniqueParams(_, _)
uniqueParams(allParams, unique) ==
    IF allParams = << >> THEN unique
    ELSE LET param == allParams[1]
             same == { k \in DOMAIN unique : unique[k].in = param.in
                                               /\ unique[k].name = param.name }
         IN  uniqueParams(Tail(allParams),
                 IF same = {} THEN Append(unique, param)
                 ELSE [ k \in DOMAIN unique |->
                          IF k \in same THEN param ELSE unique[k] ])

\* the ApiParameter built of a parameter of the document
apiParameter(param) ==
    [ name |-> param.name, in |-> param.in, description |-> param.description,
      required |-> param.required, schema |-> param.schema ]

\* OpenApi2Parser.convertParameters
convertParameters(operationParams, pathParams) ==
    LET kept == SelectSeq(uniqueParams(pathParams \o operationParams, << >>),
                          LAMBDA param : param.in # "body")
    IN  [ k \in 1..Len(kept) |-> apiParameter(kept[k]) ]

\* OpenApi3Parser.convertParameters
convertParametersOpenApi3(operationParams, pathParams) ==
    LET all == uniqueParams(pathParams \o operationParams, << >>)
    IN  [ k \in 1..Len(all) |-> apiParameter(all[k]) ]

\* OpenApi2Parser.convertRequestBody: the first body parameter of the operation
convertRequestBody(operation) ==
    LET body == { k \in DOMAIN operation.parameters :
                    operation.parameters[k].in = "body" }
    IN  IF body = {} THEN NoBody
        ELSE LET bodyParam == operation.parameters[
                                  CHOOSE k \in body : \A j \in body : k <= j]
             IN  [ required |-> bodyParam.required, schema |-> bodyParam.schema ]

\* the ApiOperation built by the body of extractOperations' inner loop
apiOperation(document, i, method) ==
    LET operation == operationAt(document, i, method)
        path == document.paths[i].path
        legacy == detectVersion(document) = "2.0"
    IN  [ operationId   |-> IF operation.operationId # << >>
                            THEN operation.operationId
                            ELSE generateOperationId(method, path),
          method        |-> toUpperCase(method),
          path          |-> path,
          parameters    |-> IF legacy
                            THEN convertParameters(operation.parameters,
                                                   pathParameters(document, i))
                            ELSE convertParametersOpenApi3(operation.parameters,
                                                   pathParameters(document, i)),
          requestBody   |-> IF legacy THEN convertRequestBody(operation)
                            ELSE operation.requestBody,
          convertThrows |-> operation.convertThrows ]

\* OpenApi2Parser.extractOperations / OpenApi3Parser.extractOperations
extractOperations(document, verbs) ==
    LET places == traversal(document, verbs)
    IN  [ x \in 1..Len(places) |-> apiOperation(document, places[x][1], places[x][2]) ]

\* parser.parse() of the parser Parser.create() picks
parse(document) ==
    [ version    |-> detectVersion(document),
      baseUrl    |-> IF detectVersion(document) = "2.0"
                     THEN extractBaseUrl(document, appConfig.swaggerUrl)
                     ELSE extractBaseUrlOpenApi3(document, appConfig.swaggerUrl),
      operations |-> extractOperations(document,
                         IF detectVersion(document) = "2.0"
                         THEN methods ELSE methodsOpenApi3) ]

-----------------------------------------------------------------------------
(* generators: ToolGenerator *)

maxLength == 64

\* the generator the server builds has no tool prefix
toolPrefix == << >>

commonApiPrefixes == { << "a","p","i" >>, << "v","1" >>, << "v","2" >>, << "v","3" >> }

addPrefix(name) ==
    IF Len(toolPrefix) > 0 THEN toolPrefix \o << "-" >> \o name ELSE name

\* ToolGenerator.truncateToolName
truncateToolName(name) ==
    IF Len(name) <= maxLength
    THEN name
    ELSE LET parts == split(name, "-")
         IN  IF Len(parts) <= 2
             THEN substring(name, maxLength)
             ELSE LET firstPart == parts[1]
                      lastPart == parts[Len(parts)]
                      middleParts == SubSeq(parts, 2, Len(parts) - 1)
                      testName(part) ==
                          firstPart \o << "-" >> \o part \o << "-" >> \o lastPart
                      fitting == { x \in DOMAIN middleParts :
                                     Len(testName(middleParts[x])) <= maxLength }
                      truncatedName ==
                          IF fitting = {}
                          THEN firstPart \o << "-" >> \o lastPart
                          ELSE testName(middleParts[
                                   CHOOSE x \in fitting : \A y \in fitting : x <= y ])
                  IN  IF Len(truncatedName) > maxLength
                      THEN substring(truncatedName, maxLength)
                      ELSE truncatedName

\* ToolGenerator.generateToolName
generateToolName(operation) ==
    IF operation.operationId # << >> /\ includes(operation.operationId, "-")
    THEN truncateToolName(addPrefix(toLowerCase(operation.operationId)))
    ELSE LET method == toLowerCase(operation.method)
             nonEmpty == SelectSeq(split(operation.path, "/"),
                                   LAMBDA part : Len(part) > 0)
             noPrefixes == SelectSeq(nonEmpty,
                               LAMBDA part : toLowerCase(part) \notin commonApiPrefixes)
             noParameters == SelectSeq(noPrefixes,
                               LAMBDA part : ~ (startsWithChar(part, "{")
                                                /\ endsWithChar(part, "}")))
             pathParts == [ x \in 1..Len(noParameters) |-> toLowerCase(noParameters[x]) ]
             meaningfulParts == IF Len(pathParts) > 0 THEN pathParts
                                ELSE << << "u","n","k","n","o","w","n" >> >>
             nameParts == << method >> \o meaningfulParts
             name == trimHyphens(collapseHyphens(removeInvalidChars(
                         join(nameParts, << "-" >>))))
         IN  truncateToolName(addPrefix(name))

\* ToolGenerator.generateTool; Threw stands for an exception out of it
Threw == [ threw |-> TRUE ]
generateTool(operation) ==
    IF operation.convertThrows
    THEN Threw
    ELSE [ name |-> generateToolName(operation), operation |-> operation ]

-----------------------------------------------------------------------------
(* SwaggerMcpServer.generateTools *)

\* A loop without the try/catch around an iteration: the first exception ends
\* the pass with the tools registered so far
RECURSIVE generateToolsLoopWithoutCatch(_, _, _)
generateToolsLoopWithoutCatch(operations, registry, nameCount) ==
    IF operations = << >>
    THEN registry
    ELSE LET tool == generateTool(operations[1])
         IN  IF "threw" \in DOMAIN tool
             THEN registry
             ELSE generateToolsLoopWithoutCatch(Tail(operations),
                      (tool.name :> tool) @@ registry, nameCount)

\* one iteration of the loop over the operations
RECURSIVE generateToolsLoop(_, _, _)
generateToolsLoop(operations, registry, nameCount) ==
    IF operations = << >>
    THEN registry
    ELSE LET tool == generateTool(operations[1])
         IN  IF "threw" \in DOMAIN tool
             THEN generateToolsLoop(Tail(operations), registry, nameCount)
             ELSE IF tool.name \in DOMAIN registry
             THEN LET count == IF tool.name \in DOMAIN nameCount
                               THEN nameCount[tool.name] ELSE 1
                      finalName == tool.name \o << "-" >> \o numberToString(count + 1)
                  IN  generateToolsLoop(Tail(operations),
                          (finalName :> [ tool EXCEPT !.name = finalName ]) @@ registry,
                          (tool.name :> (count + 1)) @@ nameCount)
             ELSE generateToolsLoop(Tail(operations),
                      (tool.name :> tool) @@ registry,
                      (tool.name :> 1) @@ nameCount)

\* this.tools after generateTools() ran on the operations
generateTools(operations) == generateToolsLoop(operations, EmptyMap, EmptyMap)


-----------------------------------------------------------------------------
(* auth: AuthManager *)

authorizationHeader == << "A","u","t","h","o","r","i","z","a","t","i","o","n" >>
xApiKeyHeader == << "X","-","A","P","I","-","K","e","y" >>
bearerPrefix == << "B","e","a","r","e","r"," " >>
basicPrefix == << "B","a","s","i","c"," " >>

\* JavaScript truthiness of an optional string; an absent (undefined) string
\* is held as the empty one, which is as falsy
truthy(s) == s # << >>

indexOf(s, c) == CHOOSE i \in 1..Len(s) : s[i] = c

\* the byte Buffer.from(token) holds for an ASCII character
charCode(c) ==
    IF c \in LowerSet THEN 96 + indexOf(LowerChars, c)
    ELSE IF c \in UpperSet THEN 64 + indexOf(UpperChars, c)
    ELSE IF c \in DigitSet THEN 47 + indexOf(DigitChars, c)
    ELSE IF c = ":" THEN 58
    ELSE IF c = "-" THEN 45
    ELSE IF c = "." THEN 46
    ELSE IF c = "_" THEN 95
    ELSE 63

base64Chars == UpperChars \o LowerChars \o DigitChars \o << "+", "/" >>

\* Buffer.toString('base64') of a sequence of bytes
RECURSIVE base64Bytes(_)
base64Bytes(bytes) ==
    IF bytes = << >> THEN << >>
    ELSE IF Len(bytes) = 1
    THEN << base64Chars[(bytes[1] \div 4) + 1],
            base64Chars[((bytes[1] % 4) * 16) + 1], "=", "=" >>
    ELSE IF Len(bytes) = 2
    THEN << base64Chars[(bytes[1] \div 4) + 1],
            base64Chars[((bytes[1] % 4) * 16) + (bytes[2] \div 16) + 1],
            base64Chars[((bytes[2] % 16) * 4) + 1], "=" >>
    ELSE << base64Chars[(bytes[1] \div 4) + 1],
            base64Chars[((bytes[1] % 4) * 16) + (bytes[2] \div 16) + 1],
            base64Chars[((bytes[2] % 16) * 4) + (bytes[3] \div 64) + 1],
            base64Chars[(bytes[3] % 64) + 1] >>
         \o base64Bytes(SubSeq(bytes, 4, Len(bytes)))

\* Buffer.from(token).toString('base64')
toBase64(token) == base64Bytes([ i \in 1..Len(token) |-> charCode(token[i]) ])

\* config.headers[name] = value
setHeader(config, name, value) ==
    [ config EXCEPT !.headers =
        [ k \in DOMAIN config.headers \cup { name } |->
            IF k = name THEN value ELSE config.headers[k] ] ]

\* An applyAuth that leaves a header the request already carries alone
applyAuthKeepingExisting(config, authConfig) ==
    IF authConfig.type = "bearer" /\ truthy(authConfig.token)
       /\ authConfig.header \notin DOMAIN config.headers
    THEN setHeader(config, authConfig.header, bearerPrefix \o authConfig.token)
    ELSE IF authConfig.type = "apikey" /\ truthy(authConfig.token)
            /\ truthy(authConfig.apiKeyHeader)
            /\ authConfig.apiKeyHeader \notin DOMAIN config.headers
    THEN setHeader(config, authConfig.apiKeyHeader, authConfig.token)
    ELSE IF authConfig.type = "basic" /\ truthy(authConfig.token)
            /\ authConfig.header \notin DOMAIN config.headers
    THEN setHeader(config, authConfig.header, basicPrefix \o toBase64(authConfig.token))
    ELSE config

\* AuthManager.applyAuth
applyAuth(config, authConfig) ==
    IF authConfig.type = "none" THEN config
    ELSE IF authConfig.type = "bearer"
    THEN IF truthy(authConfig.token)
         THEN setHeader(config, authConfig.header, bearerPrefix \o authConfig.token)
         ELSE config
    ELSE IF authConfig.type = "apikey"
    THEN IF truthy(authConfig.token) /\ truthy(authConfig.apiKeyHeader)
         THEN setHeader(config, authConfig.apiKeyHeader, authConfig.token)
         ELSE config
    ELSE IF authConfig.type = "basic"
    THEN IF truthy(authConfig.token)
         THEN setHeader(config, authConfig.header,
                        basicPrefix \o toBase64(authConfig.token))
         ELSE config
    ELSE config

\* An updateToken that writes the token to a copy of the configuration
updateTokenOnCopy(authConfig, token) == authConfig

\* AuthManager.updateToken: this.authConfig.token = token
updateToken(authConfig, token) == [ authConfig EXCEPT !.token = token ]

-----------------------------------------------------------------------------
(* generators: ToolGenerator.generateInputSchema *)

bodyName == << "b","o","d","y" >>

parameterNames(operation) ==
    { operation.parameters[i].name : i \in DOMAIN operation.parameters }

\* SchemaConverter.convert gives a ZodObject for an object schema
isZodObject(schema) == schema.type = "object"

\* The flat input shape: for each key where it came from (a declared
\* parameter, a spliced field of an object body, or the synthetic 'body' key
\* of a body that is not an object) and whether it is optional.  A later
\* assignment to a key replaces the earlier one.
generateInputSchema(operation) ==
    LET declared(k) == CHOOSE i \in DOMAIN operation.parameters :
                           /\ operation.parameters[i].name = k
                           /\ \A j \in DOMAIN operation.parameters :
                                  operation.parameters[j].name = k => j <= i
        fromParameters ==
            [ k \in parameterNames(operation) |->
                [ from |-> "parameter",
                  optional |-> ~operation.parameters[declared(k)].required ] ]
        requestBody == operation.requestBody
        fromBody ==
            IF requestBody = NoBody THEN EmptyMap
            ELSE IF isZodObject(requestBody.schema)
            THEN [ k \in requestBody.schema.properties |->
                     [ from |-> "bodyField",
                       optional |-> ~requestBody.required
                                    \/ k \notin requestBody.schema.required ] ]
            ELSE (bodyName :> [ from |-> "syntheticBody",
                                optional |-> ~requestBody.required ])
    IN  fromBody @@ fromParameters

-----------------------------------------------------------------------------
(* proxy: ApiProxy *)

\* ApiProxy.normalizeBaseUrl: .replace(/\/$/, '')
normalizeBaseUrl(url) ==
    IF endsWithChar(url, "/") THEN SubSeq(url, 1, Len(url) - 1) ELSE url

\* half of a surrogate pair on its own, as one UTF-16 code unit
loneSurrogate == "\\uD800"

\* the characters encodeURIComponent leaves as they are
uriUnreserved ==
    UpperSet \cup LowerSet \cup DigitSet
        \cup { "-", "_", ".", "!", "~", "*", "'", "(", ")" }

upperHex == << "0","1","2","3","4","5","6","7","8","9","A","B","C","D","E","F" >>

\* the code of an ASCII character encodeURIComponent escapes
reservedCode(c) ==
    IF c = " " THEN 32 ELSE IF c = "#" THEN 35 ELSE IF c = "$" THEN 36
    ELSE IF c = "%" THEN 37 ELSE IF c = "&" THEN 38 ELSE IF c = "+" THEN 43
    ELSE IF c = "," THEN 44 ELSE IF c = "/" THEN 47 ELSE IF c = ":" THEN 58
    ELSE IF c = ";" THEN 59 ELSE IF c = "=" THEN 61 ELSE IF c = "?" THEN 63
    ELSE IF c = "@" THEN 64 ELSE IF c = "{" THEN 123 ELSE IF c = "}" THEN 125
    ELSE 63

percentEncode(c) ==
    IF c \in uriUnreserved THEN << c >>
    ELSE << "%", upperHex[(reservedCode(c) \div 16) + 1],
                 upperHex[(reservedCode(c) % 16) + 1] >>

RECURSIVE encodeChars(_)
encodeChars(s) ==
    IF s = << >> THEN << >> ELSE percentEncode(s[1]) \o encodeChars(Tail(s))

\* a JavaScript undefined where a string can stand, and String(undefined)
Undefined == << "\\undefined" >>
undefinedText == << "u","n","d","e","f","i","n","e","d" >>

\* encodeURIComponent(value) throws a URIError on a lone surrogate
encodeThrows(value) == loneSurrogate \in Range(value)

\* encodeURIComponent(value)
encodeURIComponent(value) ==
    IF value = Undefined THEN undefinedText ELSE encodeChars(value)

\* the first index at which pattern occurs in s, 0 when it does not
firstIndexOf(s, pattern) ==
    LET hits == { i \in 1..(Len(s) - Len(pattern) + 1) :
                    SubSeq(s, i, i + Len(pattern) - 1) = pattern }
    IN  IF hits = {} THEN 0 ELSE CHOOSE i \in hits : \A j \in hits : i <= j

\* String.prototype.replace with a string pattern: the first occurrence only
replaceFirst(s, pattern, replacement) ==
    LET i == firstIndexOf(s, pattern)
    IN  IF i = 0 THEN s
        ELSE SubSeq(s, 1, i - 1) \o replacement
                 \o SubSeq(s, i + Len(pattern), Len(s))

placeholder(name) == << "{" >> \o name \o << "}" >>

contentTypeHeader == << "C","o","n","t","e","n","t","-","T","y","p","e" >>
applicationJson ==
    << "a","p","p","l","i","c","a","t","i","o","n","/","j","s","o","n" >>
acceptHeader == << "A","c","c","e","p","t" >>
acceptJsonp ==
    << "a","p","p","l","i","c","a","t","i","o","n","/","j","a","v","a","s","c","r","i","p","t",","," ","a","p","p","l","i","c","a","t","i","o","n","/","j","s","o","n",","," ","*","/","*" >>
callbackName == << "c","a","l","l","b","a","c","k" >>
getMethod == << "g","e","t" >>

NoData == [ kind |-> "none" ]

\* params[name]
valueOf(params, name) == IF name \in DOMAIN params THEN params[name] ELSE Undefined

\* The loop of buildRequestConfig over operation.parameters: each declared
\* parameter that is supplied or required goes to the url, the query map or
\* the header map; a cookie parameter is only diagnosed.
RECURSIVE applyParameters(_, _, _)
applyParameters(parameters, params, config) ==
    IF parameters = << >> THEN config
    ELSE LET param == parameters[1]
             value == valueOf(params, param.name)
         IN  IF value = Undefined /\ ~param.required
             THEN applyParameters(Tail(parameters), params, config)
             ELSE IF param.in = "path"
             THEN IF encodeThrows(value) THEN Threw
                  ELSE applyParameters(Tail(parameters), params,
                           [ config EXCEPT !.url =
                               replaceFirst(config.url, placeholder(param.name),
                                            encodeURIComponent(value)) ])
             ELSE IF param.in = "query"
             THEN applyParameters(Tail(parameters), params,
                      [ config EXCEPT !.params =
                          [ k \in DOMAIN config.params \cup { param.name } |->
                              IF k = param.name THEN value ELSE config.params[k] ] ])
             ELSE IF param.in = "header"
             THEN applyParameters(Tail(parameters), params,
                      setHeader(config, param.name, value))
             ELSE applyParameters(Tail(parameters), params, config)

\* operation.parameters?.some(p => p.name === key && [path, query, header,
\* cookie].includes(p.in))
isHandledParam(operation, key) ==
    \E i \in DOMAIN operation.parameters :
        /\ operation.parameters[i].name = key
        /\ operation.parameters[i].in \in { "path", "query", "header", "cookie" }

\* config.data of buildRequestConfig
requestData(operation, params) ==
    IF operation.requestBody = NoBody THEN NoData
    ELSE LET bodyKeys == { k \in DOMAIN params : ~isHandledParam(operation, k) }
         IN  IF bodyName \in DOMAIN params
             THEN [ kind |-> "value", value |-> params[bodyName] ]
             ELSE IF bodyKeys # {}
             THEN [ kind |-> "object", fields |-> [ k \in bodyKeys |-> params[k] ] ]
             ELSE NoData

\* the headers buildRequestConfig sets before it looks at the parameters
initialHeaders(operation) ==
    LET accept == IF \E i \in DOMAIN operation.parameters :
                        /\ operation.parameters[i].name = callbackName
                        /\ operation.parameters[i].in = "query"
                  THEN (acceptHeader :> acceptJsonp) ELSE EmptyMap
    IN  IF toLowerCase(operation.method) = getMethod
        THEN [ k \in DOMAIN accept \ { contentTypeHeader } |-> accept[k] ]
        ELSE IF contentTypeHeader \notin DOMAIN accept
        THEN (contentTypeHeader :> applicationJson) @@ accept
        ELSE accept

\* ApiProxy.buildRequestConfig: the request configuration, or Threw
buildRequestConfig(operation, params, authConfig) ==
    LET config == applyParameters(operation.parameters, params,
                      [ method  |-> toLowerCase(operation.method),
                        url     |-> operation.path,
                        params  |-> EmptyMap,
                        headers |-> initialHeaders(operation),
                        data    |-> NoData ])
    IN  IF "threw" \in DOMAIN config THEN Threw
        ELSE applyAuth([ config EXCEPT !.data = requestData(operation, params) ],
                       authConfig)

-----------------------------------------------------------------------------
(* The lifecycle coordinator: SwaggerMcpServer *)

NoDoc == [ none |-> TRUE ]
NoProxy == [ none |-> TRUE ]
NoProbe == [ fn |-> "none" ]
NoTokenUpdate == [ called |-> FALSE, token |-> << >> ]

\* the auth section of the configuration when the environment sets none of it
defaultAuthConfig ==
    [ type |-> "none", token |-> << >>, header |-> authorizationHeader,
      apiKeyHeader |-> xApiKeyHeader ]
NoResult == [ kind |-> "none", isError |-> FALSE, cause |-> "none" ]

\* bounds of the model
MaxLoads == 3
MaxConcurrentLoads == 2
MaxCalls == 1

\* options.refreshInterval: z.number().positive().default(3600000)
defaultRefreshInterval == 3600000

usersPath == << "/","u","s","e","r","s" >>
itemsPath == << "/","i","t","e","m","s" >>
urlA == << "h","t","t","p",":","/","/","a",".","x","/" >>
hostB == << "b",".","x" >>
hostWithPathB == << "b",".","x","/","v","1","/" >>
basePathB == << "/","a","p","i" >>
\* SWAGGER_URL = http://s.x/doc.json
sourceUrl == [ protocol |-> << "h","t","t","p",":" >>, host |-> << "s",".","x" >> ]
urlOverride == << "h","t","t","p",":","/","/","o",".","x" >>

operationObject(operationId, convertThrows) ==
    [ operationId |-> operationId, convertThrows |-> convertThrows,
      parameters |-> << >>, requestBody |-> NoBody ]

\* the documents the document source serves in the lifecycle specification
DocumentA ==
    [ swagger |-> << >>, openapi |-> << "3",".","0",".","1" >>,
      scheme |-> << >>, host |-> << >>, basePath |-> << >>, server |-> urlA,
      paths |-> << [ path |-> usersPath,
                     ops |-> (get :> operationObject(<< >>, FALSE))
                             @@ (post :> operationObject(<< "m","k" >>, FALSE)) ] >> ]
DocumentB ==
    [ swagger |-> << "2",".","0" >>, openapi |-> << >>,
      scheme |-> << >>, host |-> hostWithPathB, basePath |-> basePathB,
      server |-> << >>,
      paths |-> << [ path |-> usersPath,
                     ops |-> (get :> operationObject(<< >>, FALSE)) ],
                   [ path |-> itemsPath,
                     ops |-> (get :> operationObject(<< >>, FALSE)) ] >> ]
DocumentUnsupported ==
    [ swagger |-> << >>, openapi |-> << "4",".","0" >>,
      scheme |-> << >>, host |-> << >>, basePath |-> << >>, server |-> urlA,
      paths |-> << >> ]
Documents == { DocumentA, DocumentB, DocumentUnsupported }

Configurations ==
    [ apiBaseUrl : { << >>, urlOverride },
      swaggerUrl : { sourceUrl },
      refreshInterval : { defaultRefreshInterval } ]

Init ==
    /\ appConfig \in Configurations
    /\ startPc = "init"
    /\ swaggerDoc = NoDoc
    /\ apiProxy = NoProxy
    /\ tools = EmptyMap
    /\ registered = EmptyMap
    /\ connected = FALSE
    /\ timerActive = FALSE
    /\ loads = {}
    /\ nextLoadId = 0
    /\ calls = {}
    /\ lastResult = NoResult
    /\ unhandledRejection = FALSE
    /\ process = "running"
    /\ authManager = defaultAuthConfig
    /\ lastTokenUpdate = NoTokenUpdate
    /\ probe = NoProbe

\* A loadSwaggerDocument() call is started: it suspends on the fetch.
beginLoad(kind) ==
    /\ nextLoadId' = nextLoadId + 1
    /\ loads' = loads \cup { [ id |-> nextLoadId + 1, kind |-> kind, pos |-> "fetch",
                               fetched |-> NoDoc, document |-> NoDoc ] }

\* start(), up to its await of the first loadSwaggerDocument()
Start ==
    /\ process = "running"
    /\ startPc = "init"
    /\ startPc' = "loading"
    /\ beginLoad("first")
    /\ UNCHANGED << authManager, lastTokenUpdate, probe, appConfig, swaggerDoc, apiProxy, tools, registered, connected,
                    timerActive, calls, lastResult,
                    unhandledRejection, process >>

\* A start() that goes on whatever became of the first load
startAfterFirstLoadIgnoringFailure(succeeded) ==
    [ startPc |-> "connecting", register |-> TRUE,
      timer |-> appConfig.refreshInterval > 0 ]

\* What start() does once its await of the first load has settled: on success
\* the interval timer is installed and the tools are registered, then start()
\* awaits server.connect(); on failure start() rejects.
startAfterFirstLoad(succeeded) ==
    IF succeeded
    THEN [ startPc |-> "connecting", register |-> TRUE,
           timer |-> appConfig.refreshInterval > 0 ]
    ELSE [ startPc |-> "failed", register |-> FALSE, timer |-> FALSE ]

\* What becomes of a rejected promise nobody handles: node either goes on
\* (a warning) or ends the process, depending on how it was started.
UnhandledRejectionOutcomes == { "running", "terminated" }

\* The catch block of loadSwaggerDocument() logs and rethrows.  The first
\* load's rejection reaches start(); a reload's rejection is the return value
\* of the setInterval callback, which nobody handles.
loadFails(l) ==
    /\ loads' = loads \ { l }
    /\ IF l.kind = "first"
       THEN /\ startPc' = startAfterFirstLoad(FALSE).startPc
            /\ timerActive' = startAfterFirstLoad(FALSE).timer
            /\ registered' = IF startAfterFirstLoad(FALSE).register
                             THEN tools ELSE registered
            /\ UNCHANGED << unhandledRejection, process >>
       ELSE /\ unhandledRejection' = TRUE
            /\ process' \in UnhandledRejectionOutcomes
            /\ UNCHANGED << startPc, timerActive, registered >>
    /\ UNCHANGED << authManager, lastTokenUpdate, probe, appConfig, swaggerDoc, apiProxy, tools, connected,
                    nextLoadId, calls, lastResult >>

\* the fetch (axios.get, or fs.readFile and JSON.parse) gives a document; the
\* two repair passes run on it and the call suspends on SwaggerParser.validate
FetchOk(l, fetched) ==
    /\ process = "running"
    /\ l \in loads /\ l.pos = "fetch"
    /\ loads' = (loads \ { l }) \cup
                { [ l EXCEPT !.pos = "validate", !.fetched = fetched,
                             !.document = fixHostFieldFormat(
                                              fixDuplicateOperationIds(fetched)) ] }
    /\ UNCHANGED << authManager, lastTokenUpdate, probe, appConfig, startPc, swaggerDoc, apiProxy, tools, registered,
                    connected, timerActive, nextLoadId, calls, lastResult,
                    unhandledRejection, process >>

FetchFail(l) ==
    /\ process = "running"
    /\ l \in loads /\ l.pos = "fetch"
    /\ loadFails(l)

\* SwaggerParser.validate or SwaggerParser.dereference rejects
ValidateFail(l) ==
    /\ process = "running"
    /\ l \in loads /\ l.pos = "validate"
    /\ loadFails(l)

\* A load that keeps the base URL the document gives
builtSwaggerDocWithoutOverride(l) ==
    LET parsed == parse(l.document)
    IN  [ version    |-> parsed.version,
          baseUrl    |-> parsed.baseUrl,
          operations |-> parsed.operations,
          load       |-> l.id ]

\* this.swaggerDoc after parse() and the base URL override
builtSwaggerDoc(l) ==
    LET parsed == parse(l.document)
    IN  [ version    |-> parsed.version,
          baseUrl    |-> IF appConfig.apiBaseUrl # << >>
                         THEN appConfig.apiBaseUrl ELSE parsed.baseUrl,
          operations |-> parsed.operations,
          load       |-> l.id ]

\* A reload that leaves the proxy of the generation before in place
builtApiProxyKeepingCurrent(doc) ==
    IF apiProxy = NoProxy
    THEN [ baseUrl |-> normalizeBaseUrl(doc.baseUrl), load |-> doc.load ]
    ELSE apiProxy

\* this.apiProxy = new ApiProxy(this.swaggerDoc.baseUrl, this.authManager)
builtApiProxy(doc) ==
    [ baseUrl |-> normalizeBaseUrl(doc.baseUrl), load |-> doc.load ]

\* this.tools after generateTools(), each tool tagged with the load that built it
builtTools(doc) ==
    LET registry == generateTools(doc.operations)
    IN  [ n \in DOMAIN registry |->
            [ name |-> registry[n].name, operation |-> registry[n].operation,
              load |-> doc.load ] ]

\* SwaggerParser.validate and then SwaggerParser.dereference resolve (two
\* awaits with nothing between them, taken as one step); the rest of
\* loadSwaggerDocument() runs without suspending: Parser.create, parse, the override, the new ApiProxy,
\* generateTools.  When this was the first load, start() goes on in the same
\* turn: setInterval, registerTools, then the await of server.connect().
ValidateOk(l) ==
    /\ process = "running"
    /\ l \in loads /\ l.pos = "validate"
    /\ IF detectVersion(l.document) = "unknown"
       THEN loadFails(l)
       ELSE LET doc == builtSwaggerDoc(l)
            IN  /\ swaggerDoc' = doc
                /\ apiProxy' = builtApiProxy(doc)
                /\ tools' = builtTools(doc)
                /\ loads' = loads \ { l }
                /\ IF l.kind = "first"
                   THEN /\ startPc' = startAfterFirstLoad(TRUE).startPc
                        /\ timerActive' = startAfterFirstLoad(TRUE).timer
                        /\ registered' = IF startAfterFirstLoad(TRUE).register
                                         THEN tools' ELSE registered
                   ELSE UNCHANGED << startPc, timerActive, registered >>
                /\ UNCHANGED << authManager, lastTokenUpdate, probe, appConfig, connected, nextLoadId, calls,
                                lastResult, unhandledRejection, process >>

\* server.connect(transport) resolves: start() returns
Connect ==
    /\ process = "running"
    /\ startPc = "connecting"
    /\ startPc' = "ready"
    /\ connected' = TRUE
    /\ UNCHANGED << authManager, lastTokenUpdate, probe, appConfig, swaggerDoc, apiProxy, tools, registered,
                    timerActive, loads, nextLoadId, calls, lastResult,
                    unhandledRejection, process >>

\* the setInterval callback: () => this.loadSwaggerDocument()
TimerFire ==
    /\ process = "running"
    /\ timerActive
    /\ nextLoadId < MaxLoads
    /\ Cardinality(loads) < MaxConcurrentLoads
    /\ beginLoad("reload")
    /\ UNCHANGED << authManager, lastTokenUpdate, probe, appConfig, startPc, swaggerDoc, apiProxy, tools, registered,
                    connected, timerActive, calls, lastResult,
                    unhandledRejection, process >>

-----------------------------------------------------------------------------
(* Tool invocations: the handler registerTools() gives the MCP server calls *)
(* executeTool(metadata, params) with the metadata it was registered with.  *)

\* What the raw arguments of an invocation are to the handler: "accepted" by
\* z.object(inputSchema).parse and buildable; "rejected" by parse (a ZodError);
\* "unbuildable": accepted, but buildRequestConfig throws on them.
ParamsKinds == { "accepted", "rejected", "unbuildable" }

\* How the HTTP request of ApiProxy.execute ends
HttpOutcomes == { "response", "errorStatus", "noResponse", "setupError" }

\* An executeTool whose parse of the arguments is outside the try block
executeToolBeginParseOutsideTry(proxy, params) ==
    IF proxy = NoProxy THEN [ does |-> "throw", cause |-> "noProxy" ]
    ELSE IF params = "rejected" THEN [ does |-> "throw", cause |-> "validation" ]
    ELSE IF params = "unbuildable" THEN [ does |-> "errorPayload", cause |-> "construction" ]
    ELSE [ does |-> "dispatch", cause |-> "none" ]

\* executeTool up to the await of the HTTP request: "throw" (the handler's
\* promise rejects), an error payload, or the request is dispatched
executeToolBegin(proxy, params) ==
    IF proxy = NoProxy THEN [ does |-> "throw", cause |-> "noProxy" ]
    ELSE IF params = "rejected" THEN [ does |-> "errorPayload", cause |-> "validation" ]
    ELSE IF params = "unbuildable" THEN [ does |-> "errorPayload", cause |-> "construction" ]
    ELSE [ does |-> "dispatch", cause |-> "none" ]

\* executeTool after the await: ApiProxy.execute returned the response data or
\* threw the Error handleError() builds, which the catch block turns into an
\* error payload
executeToolEnd(outcome) ==
    IF outcome = "response"
    THEN [ does |-> "successPayload", cause |-> "none" ]
    ELSE [ does |-> "errorPayload", cause |-> outcome ]

\* what the transport gets back from the handler
handlerResult(r) ==
    [ kind    |-> IF r.does = "throw" THEN "threw" ELSE "payload",
      isError |-> r.does = "errorPayload",
      cause   |-> r.cause ]

Invoke(name, params) ==
    /\ process = "running"
    /\ connected
    /\ name \in DOMAIN registered
    /\ Cardinality(calls) < MaxCalls
    /\ LET metadata == registered[name]
           r == executeToolBegin(apiProxy, params)
       IN  IF r.does = "dispatch"
           THEN /\ calls' = calls \cup
                      { [ name          |-> name,
                          operation     |-> metadata.operation,
                          operationLoad |-> metadata.load,
                          baseUrl       |-> apiProxy.baseUrl,
                          proxyLoad     |-> apiProxy.load,
                          request       |-> buildRequestConfig(
                                                metadata.operation, EmptyMap,
                                                authManager),
                          tokenUpdate   |-> lastTokenUpdate ] }
                /\ UNCHANGED lastResult
           ELSE /\ lastResult' = handlerResult(r)
                /\ UNCHANGED calls
    /\ UNCHANGED << authManager, lastTokenUpdate, probe, appConfig, startPc, swaggerDoc, apiProxy, tools, registered,
                    connected, timerActive, loads, nextLoadId,
                    unhandledRejection, process >>

Respond(c, outcome) ==
    /\ process = "running"
    /\ c \in calls
    /\ calls' = calls \ { c }
    /\ lastResult' = handlerResult(executeToolEnd(outcome))
    /\ UNCHANGED << authManager, lastTokenUpdate, probe, appConfig, startPc, swaggerDoc, apiProxy, tools, registered,
                    connected, timerActive, loads, nextLoadId,
                    unhandledRejection, process >>

-----------------------------------------------------------------------------
(* The lifecycle specification *)

Next ==
    \/ Start
    \/ \E l \in loads, d \in Documents : FetchOk(l, d)
    \/ \E l \in loads : FetchFail(l)
    \/ \E l \in loads : ValidateOk(l)
    \/ \E l \in loads : ValidateFail(l)
    \/ Connect
    \/ TimerFire
    \/ \E name \in DOMAIN registered, params \in ParamsKinds : Invoke(name, params)
    \/ \E c \in calls, outcome \in HttpOutcomes : Respond(c, outcome)

Spec == Init /\ [][Next]_vars


-----------------------------------------------------------------------------
(* The first-load specification: start() runs once, to the end, on any     *)
(* document of a bounded family.  It is the specification for what the     *)
(* repair pass, the parsers and the tool generation compute.               *)

\* bounds of the document family
MaxIdSlots == 5
MaxNamePaths == 2

idX   == << "x" >>
idX2  == << "x","_","2" >>
idSlug == << "g","e","t","-","u","s","e","r","s","-","2" >>

usersIdParamPath == << "/","u","s","e","r","s","/","{","i","d","}" >>
usersIdPath      == << "/","u","s","e","r","s","/","i","d" >>
UsersPath        == << "/","U","s","e","r","s" >>
apiUsersPath     == << "/","a","p","i","/","v","1","/","u","s","e","r","s" >>
\* one segment that makes the name of its get operation maxLength characters
longUpperPath    == << "/" >> \o repeatChar("A", maxLength - (Len(get) + 1))
longLowerPath    == << "/" >> \o repeatChar("a", maxLength - (Len(get) + 1))
\* three segments whose name is longer than maxLength
manyPartsPath    == << "/" >> \o repeatChar("b", maxLength \div 2) \o << "/" >>
                    \o repeatChar("c", maxLength \div 2) \o << "/","e","n","d" >>

\* Documents that differ in their operationIds.  A slot is a path and a verb;
\* under each of the first n slots there is no operation, one that declares no
\* operationId, or one that declares "x" or "x_2".  A 2.0 document has no
\* trace operations.
IdPaths == << usersIdParamPath, usersIdPath, usersPath >>
IdVerbs == << get, post, trace >>
IdSlots == << << 1, 1 >>, << 1, 2 >>, << 1, 3 >>, << 2, 1 >>, << 2, 3 >>,
              << 2, 2 >>, << 3, 1 >>, << 3, 2 >>, << 3, 3 >> >>
IdChoices == { "absent", "undeclared", "x", "x_2" }
idOps(choice, i) ==
    LET present == { v \in DOMAIN IdVerbs :
                       << i, v >> \in DOMAIN choice /\ choice[<< i, v >>] # "absent" }
    IN  [ m \in { IdVerbs[v] : v \in present } |->
            LET v == CHOOSE w \in present : IdVerbs[w] = m
                c == choice[<< i, v >>]
            IN  operationObject(IF c = "x" THEN idX
                                ELSE IF c = "x_2" THEN idX2 ELSE << >>, FALSE) ]
idDocument(dialect, choice) ==
    LET used == { s[1] : s \in DOMAIN choice }
    IN  [ swagger |-> IF dialect = "2.0" THEN << "2",".","0" >> ELSE << >>,
          openapi |-> IF dialect = "2.0" THEN << >> ELSE << "3",".","0",".","3" >>,
          scheme  |-> << >>,
          host    |-> IF dialect = "2.0" THEN hostB ELSE << >>,
          basePath |-> << >>,
          server  |-> IF dialect = "2.0" THEN << >> ELSE << "/" >> \o basePathB,
          paths   |-> [ i \in used |->
                          [ path |-> IdPaths[i], ops |-> idOps(choice, i) ] ] ]
IdDocuments(n) ==
    LET slots == { IdSlots[k] : k \in 1..n }
    IN  { idDocument("3.0", choice) : choice \in [ slots -> IdChoices ] }
        \cup
        { idDocument("2.0", choice) :
            choice \in { c \in [ slots -> IdChoices ] :
                           \A s \in slots : s[2] = 3 => c[s] = "absent" } }

\* Documents that differ in their paths: up to n different paths, each with a
\* get operation that declares no operationId and, some, with a post operation
\* that declares a hyphenated operationId, or with schemas that make the
\* schema conversion throw.
NamePaths == { usersPath, UsersPath, apiUsersPath, usersIdParamPath,
               longUpperPath, longLowerPath, manyPartsPath }
NameChoices == { "undeclared", "slug", "throws" }
nameOps(c) ==
    IF c = "slug"
    THEN (get :> operationObject(<< >>, FALSE)) @@ (post :> operationObject(idSlug, FALSE))
    ELSE (get :> operationObject(<< >>, c = "throws"))
nameDocument(ps, choice) ==
    [ swagger |-> << >>, openapi |-> << "3",".","1",".","0" >>,
      scheme |-> << >>, host |-> << >>, basePath |-> << >>, server |-> hostB,
      paths   |-> [ i \in DOMAIN ps |-> [ path |-> ps[i], ops |-> nameOps(choice[i]) ] ] ]
NameDocuments(n) ==
    LET seqs == { ps \in UNION { [ 1..k -> NamePaths ] : k \in 1..n } :
                    \A i, j \in DOMAIN ps : i # j => ps[i] # ps[j] }
    IN  { nameDocument(ps, choice) : ps \in seqs, choice \in [ 1..n -> NameChoices ] }

WideDocuments(slots, paths) == IdDocuments(slots) \cup NameDocuments(paths)

InitFirstLoad == Init /\ appConfig.apiBaseUrl = << >>

NextFirstLoad ==
    \/ Start
    \/ \E l \in loads :
          /\ l.pos = "fetch"
          /\ \E d \in WideDocuments(MaxIdSlots, MaxNamePaths) : FetchOk(l, d)
    \/ \E l \in loads : ValidateOk(l)
    \/ Connect

SpecFirstLoad == InitFirstLoad /\ [][NextFirstLoad]_vars

-----------------------------------------------------------------------------
(* ApiProxy.execute and ApiProxy.handleError *)

\* What handleError reads of an error: the four failures it tells apart
axiosError(outcome) ==
    [ isAxiosError |-> TRUE,
      response     |-> outcome = "errorStatus",
      request      |-> outcome \in { "errorStatus", "noResponse" } ]
thrownError == [ isAxiosError |-> FALSE, response |-> FALSE, request |-> FALSE ]

\* A handleError that reports every error without a request as a setup failure
handleErrorThreeKinds(error) ==
    IF error.isAxiosError /\ error.response THEN "returnedStatus"
    ELSE IF error.isAxiosError /\ error.request THEN "noResponseReceived"
    ELSE "requestSetupFailed"

\* ApiProxy.handleError: which of its four messages the Error it throws carries
handleError(error) ==
    IF error.isAxiosError
    THEN IF error.response THEN "returnedStatus"
         ELSE IF error.request THEN "noResponseReceived"
         ELSE "requestSetupFailed"
    ELSE "unexpectedError"

\* An execute that sends the request again when no response was received
executeRetrying(operation, params, authConfig, outcome) ==
    LET config == buildRequestConfig(operation, params, authConfig)
    IN  IF "threw" \in DOMAIN config
        THEN [ config |-> Threw, requestCalls |-> 0,
               failure |-> handleError(thrownError) ]
        ELSE IF outcome = "response"
        THEN [ config |-> config, requestCalls |-> 1, failure |-> "none" ]
        ELSE [ config |-> config,
               requestCalls |-> IF outcome = "noResponse" THEN 2 ELSE 1,
               failure |-> handleError(axiosError(outcome)) ]

\* ApiProxy.execute, taken as one step: the request configuration built (or
\* Threw), the number of calls of axiosInstance.request, and the failure kind
\* of the Error execute throws ("none" when it returns the response data)
execute(operation, params, authConfig, outcome) ==
    LET config == buildRequestConfig(operation, params, authConfig)
    IN  IF "threw" \in DOMAIN config
        THEN [ config |-> Threw, requestCalls |-> 0,
               failure |-> handleError(thrownError) ]
        ELSE IF outcome = "response"
        THEN [ config |-> config, requestCalls |-> 1, failure |-> "none" ]
        ELSE [ config |-> config, requestCalls |-> 1,
               failure |-> handleError(axiosError(outcome)) ]

-----------------------------------------------------------------------------
(* The component specification: one operation of a component is applied   *)
(* to an input of a bounded family (ApiProxy.execute on an operation and   *)
(* a validated input), and AuthManager.updateToken is called at any time.  *)

tokenA == << "u",":","p" >>
tokenB == << "k","2" >>

\* the auth sections the environment can give; only the apikey mode reads
\* the api-key header name
AuthConfigs ==
    { c \in [ type : { "none", "bearer", "apikey", "basic" },
              token : { << >>, tokenA },
              header : { authorizationHeader },
              apiKeyHeader : { xApiKeyHeader, << >> } ] :
        c.type # "apikey" => c.apiKeyHeader = xApiKeyHeader }

TokenUpdates == { tokenB, << >> }

idName == << "i","d" >>
nameName == << "n","a","m","e" >>
titleName == << "t","i","t","l","e" >>
sessionName == << "s","i","d" >>
usersIdPath2 == << "/","u","s","e","r","s","/","{","i","d","}" >>
notesPath == << "/","n","o","t","e","s" >>

parameter(name, in, required) == [ name |-> name, in |-> in, required |-> required ]
objectBody(properties, required) ==
    [ required |-> required,
      schema |-> [ type |-> "object", properties |-> properties, required |-> {} ] ]
stringBody(required) ==
    [ required |-> required,
      schema |-> [ type |-> "string", properties |-> {}, required |-> {} ] ]
operationOf(method, path, parameters, requestBody) ==
    [ operationId |-> << >>, method |-> method, path |-> path,
      convertThrows |-> FALSE, parameters |-> parameters,
      requestBody |-> requestBody ]

\* the operations ApiProxy.execute is applied to
RequestOperations ==
    { \* POST /users/{id} with a required JSON body {name}
      operationOf(<< "P","O","S","T" >>, usersIdPath2,
                  << parameter(idName, "path", TRUE) >>,
                  objectBody({ nameName }, TRUE)),
      \* GET /users/{id} with header parameters Content-Type and Authorization
      operationOf(<< "G","E","T" >>, usersIdPath2,
                  << parameter(idName, "path", TRUE),
                     parameter(contentTypeHeader, "header", FALSE),
                     parameter(authorizationHeader, "header", FALSE) >>,
                  NoBody),
      \* POST /notes with a query parameter 'body' and a JSON body {title}
      operationOf(<< "P","O","S","T" >>, notesPath,
                  << parameter(bodyName, "query", FALSE) >>,
                  objectBody({ titleName }, TRUE)),
      \* PATCH /notes with a JSON body {title, body}
      operationOf(<< "P","A","T","C","H" >>, notesPath, << >>,
                  objectBody({ titleName, bodyName }, TRUE)),
      \* PUT /notes with a text body, an api-key header parameter and a cookie
      operationOf(<< "P","U","T" >>, notesPath,
                  << parameter(xApiKeyHeader, "header", FALSE),
                     parameter(sessionName, "cookie", FALSE) >>,
                  stringBody(TRUE)),
      \* GET /notes with the JSONP callback query parameter
      operationOf(<< "G","E","T" >>, notesPath,
                  << parameter(callbackName, "query", FALSE) >>,
                  NoBody) }

\* the values an input gives its keys
InputValues == { << "a","/","b" >>, << loneSurrogate >> }

\* What z.object(shape).parse lets through: the keys of the shape only, every
\* key that is not optional among them
ValidatedInputs(operation) ==
    LET shape == generateInputSchema(operation)
        keySets == { ks \in SUBSET DOMAIN shape :
                       \A k \in DOMAIN shape : ~shape[k].optional => k \in ks }
    IN  UNION { [ ks -> InputValues ] : ks \in keySets }

InitComponents ==
    /\ appConfig \in Configurations /\ appConfig.apiBaseUrl = << >>
    /\ startPc = "init"
    /\ swaggerDoc = NoDoc
    /\ apiProxy = NoProxy
    /\ tools = EmptyMap
    /\ registered = EmptyMap
    /\ connected = FALSE
    /\ timerActive = FALSE
    /\ loads = {}
    /\ nextLoadId = 0
    /\ calls = {}
    /\ lastResult = NoResult
    /\ unhandledRejection = FALSE
    /\ process = "running"
    /\ authManager \in AuthConfigs
    /\ lastTokenUpdate = NoTokenUpdate
    /\ probe = NoProbe

\* ApiProxy.execute(operation, validatedParams), with the way the HTTP
\* request ends
Execute(operation, params, outcome) ==
    /\ probe = NoProbe
    /\ probe' = [ fn |-> "execute", operation |-> operation, params |-> params,
                  authConfig |-> authManager ]
                @@ execute(operation, params, authManager, outcome)
    /\ UNCHANGED << authManager, lastTokenUpdate >>
    /\ UNCHANGED << appConfig, startPc, swaggerDoc, apiProxy, tools, registered,
                    connected, timerActive, loads, nextLoadId, calls, lastResult,
                    unhandledRejection, process >>

\* AuthManager.updateToken(token)
UpdateToken(token) ==
    /\ authManager' = updateToken(authManager, token)
    /\ lastTokenUpdate' = [ called |-> TRUE, token |-> token ]
    /\ UNCHANGED probe
    /\ UNCHANGED << appConfig, startPc, swaggerDoc, apiProxy, tools, registered,
                    connected, timerActive, loads, nextLoadId, calls, lastResult,
                    unhandledRejection, process >>



\* the operations generateToolName is applied to: the paths of the README
\* and CHANGELOG examples, short paths, and paths whose names are too long
signInPath == << "/","a","p","i","/","A","u","t","h","/","S","i","g","n","I","n" >>
reservoirPath ==
    << "/","A","p","p","/","R","e","s","e","r","v","o","i","r","/","I","n","f","o","/","D","a","y","/","{","R","e","s","e","r","v","o","i","r","I","D","}","/","{","B","e","g","i","n","D","a","t","e","}","/","{","E","n","d","D","a","t","e","}" >>
hyphenTailPath == << "/" >> \o repeatChar("a", maxLength - 4)
                  \o << "/","x","/","s","u","b","-","i","t","e","m" >>
NamingPaths == { signInPath, reservoirPath, usersPath, usersIdParamPath,
                 manyPartsPath, hyphenTailPath }
NamingOperations ==
    { [ operationOf(method, path, << >>, NoBody) EXCEPT !.operationId = operationId ] :
        method \in { << "G","E","T" >>, << "P","O","S","T" >> },
        path \in NamingPaths,
        operationId \in { << >>, << "l","i","s","t","A","l","l" >>, idSlug } }

\* ToolGenerator.generateToolName(operation)
GenerateToolName(operation) ==
    /\ probe = NoProbe
    /\ probe' = [ fn |-> "generateToolName", operation |-> operation,
                  name |-> generateToolName(operation) ]
    /\ UNCHANGED << authManager, lastTokenUpdate >>
    /\ UNCHANGED << appConfig, startPc, swaggerDoc, apiProxy, tools, registered,
                    connected, timerActive, loads, nextLoadId, calls, lastResult,
                    unhandledRejection, process >>


\* the documents fixHostFieldFormat is applied to: both dialects, every host
\* of up to MaxHostLength characters over a letter, '.' and '/', and the host
\* of the specification's example, each with several basePaths
MaxHostLength == 3
exampleHost ==
    << "w","e","b",".","e","x","a","m","p","l","e",".","c","o","m","/","s","u","b","/","p","a","t","h" >>
HostChars == { "w", ".", "/" }
Hosts(n) == { exampleHost } \cup UNION { [ 1..k -> HostChars ] : k \in 0..n }
BasePaths == { << >>, << "/" >>, << "/","v","1" >>, << "/","/","v" >> }
hostDocument(dialect, host, basePath) ==
    [ swagger |-> IF dialect = "2.0" THEN << "2",".","0" >> ELSE << >>,
      openapi |-> IF dialect = "2.0" THEN << >> ELSE << "3",".","0",".","3" >>,
      scheme  |-> << >>, host |-> host, basePath |-> basePath,
      server  |-> << >>, paths |-> << >> ]
HostDocuments(n) ==
    { hostDocument(dialect, host, basePath) :
        dialect \in { "2.0", "3.0" }, host \in Hosts(n), basePath \in BasePaths }

\* SwaggerMcpServer.fixHostFieldFormat(document)
FixHostFieldFormat(document) ==
    /\ probe = NoProbe
    /\ probe' = [ fn |-> "fixHostFieldFormat", document |-> document,
                  repaired |-> fixHostFieldFormat(document) ]
    /\ UNCHANGED << authManager, lastTokenUpdate >>
    /\ UNCHANGED << appConfig, startPc, swaggerDoc, apiProxy, tools, registered,
                    connected, timerActive, loads, nextLoadId, calls, lastResult,
                    unhandledRejection, process >>

\* Documents for the generation pass: up to n paths, each with a get and a post
\* operation that is absent or present, declares the operationId do-it or
\* none, and, some that declare it, with schemas that make the schema
\* conversion throw.
MaxThrowPaths == 2
doIt == << "d","o","-","i","t" >>
ThrowPaths == << usersPath, UsersPath, itemsPath, apiUsersPath >>
ThrowChoices == { "absent", "undeclared", "declared", "declaredThrows" }
throwOps(choice) ==
    [ m \in { v \in { get, post } : choice[v] # "absent" } |->
        operationObject(IF choice[m] \in { "declared", "declaredThrows" }
                        THEN doIt ELSE << >>,
                        choice[m] = "declaredThrows") ]
throwDocument(choices) ==
    [ swagger |-> << >>, openapi |-> << "3",".","0",".","3" >>,
      scheme |-> << >>, host |-> << >>, basePath |-> << >>, server |-> urlA,
      paths |-> [ i \in DOMAIN choices |->
                    [ path |-> ThrowPaths[i], ops |-> throwOps(choices[i]) ] ] ]
ThrowDocuments(n) ==
    { throwDocument(choices) :
        choices \in UNION { [ 1..k -> [ { get, post } -> ThrowChoices ] ] : k \in 1..n } }

\* Documents with parameters: one path /users with up to n path-level
\* parameters and a post operation with up to n parameters of its own, in
\* either dialect, with the locations the dialect allows.  A parameter's
\* description tells the level that declares it.
MaxParameters == 2
stringSchema == [ type |-> "string", properties |-> {}, required |-> {} ]
ParameterPool(dialect) ==
    IF dialect = "2.0"
    THEN { << "query", idName >>, << "formData", idName >>, << "body", idName >> }
    ELSE { << "query", idName >>, << "cookie", idName >>, << "header", nameName >> }
documentParameter(key, level) ==
    [ name |-> key[2], in |-> key[1], description |-> level,
      required |-> key[1] = "body", schema |-> stringSchema ]
ParameterLists(dialect, level, n) ==
    UNION { [ 1..k -> { documentParameter(key, level) : key \in ParameterPool(dialect) } ] :
              k \in 0..n }
parameterDocument(dialect, pathParams, operationParams) ==
    [ swagger |-> IF dialect = "2.0" THEN << "2",".","0" >> ELSE << >>,
      openapi |-> IF dialect = "2.0" THEN << >> ELSE << "3",".","0",".","3" >>,
      scheme  |-> << >>,
      host    |-> IF dialect = "2.0" THEN hostB ELSE << >>,
      basePath |-> << >>,
      server  |-> IF dialect = "2.0" THEN << >> ELSE urlA,
      paths   |-> << [ path |-> usersPath, parameters |-> pathParams,
                       ops |-> (post :> [ operationId |-> << >>,
                                          convertThrows |-> FALSE,
                                          parameters |-> operationParams,
                                          requestBody |-> NoBody ]) ] >> ]
ParameterDocuments(n) ==
    UNION { { parameterDocument(dialect, pathParams, operationParams) :
                pathParams \in ParameterLists(dialect, "path-level", n),
                operationParams \in ParameterLists(dialect, "operation-level", n) } :
            dialect \in { "2.0", "3.0" } }

\* loadSwaggerDocument() from the fetched document on, when validation
\* succeeds: the two repairs, the parse and the generation pass
loadSwaggerDocument(document) ==
    LET repaired == fixHostFieldFormat(fixDuplicateOperationIds(document))
        operations == parse(repaired).operations
    IN  [ operations |-> operations, tools |-> generateTools(operations) ]

LoadSwaggerDocument(document) ==
    /\ probe = NoProbe
    /\ probe' = [ fn |-> "loadSwaggerDocument", document |-> document,
                  operations |-> loadSwaggerDocument(document).operations,
                  tools |-> loadSwaggerDocument(document).tools ]
    /\ UNCHANGED << authManager, lastTokenUpdate >>
    /\ UNCHANGED << appConfig, startPc, swaggerDoc, apiProxy, tools, registered,
                    connected, timerActive, loads, nextLoadId, calls, lastResult,
                    unhandledRejection, process >>

\* utils/config: the environment is a record of the variables loadConfig()
\* reads, each a string or Undefined when the variable is not set.
docUrl == << "h","t","t","p",":","/","/","s",".","x","/","d","o","c",".","j","s","o","n" >>
docPath == << "d","o","c",".","j","s","o","n" >>
defaultTimeout == 30000
authTypes == { << "b","e","a","r","e","r" >>, << "a","p","i","k","e","y" >>, << "b","a","s","i","c" >>, << "n","o","n","e" >> }
logLevels == { << "d","e","b","u","g" >>, << "i","n","f","o" >>, << "w","a","r","n" >>, << "e","r","r","o","r" >> }
Environments ==
    [ SWAGGER_URL : { Undefined, << >>, docUrl, docPath },
      SWAGGER_PATH : { Undefined, << >>, docPath },
      API_BASE_URL : { Undefined, urlOverride },
      API_TIMEOUT : { Undefined, << "5","0","0","0" >> },
      AUTH_TYPE : { Undefined, << "b","e","a","r","e","r" >>, << "o","a","u","t","h" >> },
      AUTH_TOKEN : { Undefined },
      AUTH_HEADER : { Undefined },
      API_KEY_HEADER : { Undefined },
      REFRESH_INTERVAL : { Undefined, << >>, << "0" >>, << "6","0","0","0","0" >>, << "-","5" >>, << "1","0","s" >>, << "a","b","c" >> },
      LOG_LEVEL : { Undefined },
      ENABLE_REQUEST_LOGGING : { Undefined } ]

\* a value of process.env is truthy when it is set and not the empty string
envTruthy(value) == value # Undefined /\ value # << >>

\* parseInt(s, 10): leading blanks and one sign are skipped, the longest run of
\* digits is read, NaN when there is none
NotANumber == [ kind |-> "number", nan |-> TRUE, value |-> 0 ]
NumberUndefined == [ kind |-> "undefined", nan |-> FALSE, value |-> 0 ]
digitOf(c) == (CHOOSE i \in DOMAIN DigitChars : DigitChars[i] = c) - 1
RECURSIVE skipBlanks(_)
skipBlanks(s) == IF startsWithChar(s, " ") THEN skipBlanks(Tail(s)) ELSE s
RECURSIVE readDigits(_, _)
readDigits(s, value) ==
    IF Len(s) > 0 /\ s[1] \in DigitSet
    THEN readDigits(Tail(s), 10 * value + digitOf(s[1]))
    ELSE value
parseInt(s) ==
    LET t == skipBlanks(s)
        negative == startsWithChar(t, "-")
        u == IF negative \/ startsWithChar(t, "+") THEN Tail(t) ELSE t
    IN  IF Len(u) = 0 \/ u[1] \notin DigitSet
        THEN NotANumber
        ELSE [ kind |-> "number", nan |-> FALSE,
               value |-> IF negative THEN 0 - readDigits(u, 0) ELSE readDigits(u, 0) ]

\* z.string().url(): new URL(s) succeeds.  A scheme (a letter, then letters,
\* digits, '+', '-', '.') up to the first ':'; after an http or https scheme
\* a host must follow the slashes.
isUrl(s) ==
    /\ includes(s, ":")
    /\ LET i == CHOOSE k \in DOMAIN s : s[k] = ":" /\ \A j \in 1..(k - 1) : s[j] # ":"
           scheme == toLowerCase(SubSeq(s, 1, i - 1))
           rest == SubSeq(s, i + 1, Len(s))
       IN  /\ i > 1
           /\ scheme[1] \in LowerSet
           /\ \A k \in DOMAIN scheme :
                 scheme[k] \in LowerSet \cup DigitSet \cup { "+", "-", "." }
           /\ scheme \in { << "h","t","t","p" >>, << "h","t","t","p","s" >> } =>
                 \E k \in DOMAIN rest : rest[k] \notin { "/", "\\" }

\* rawConfig: what loadConfig() reads of the environment
rawConfig(env) ==
    [ swagger |-> [ url |-> env.SWAGGER_URL, path |-> env.SWAGGER_PATH ],
      api     |-> [ baseUrl |-> env.API_BASE_URL,
                    timeout |-> IF envTruthy(env.API_TIMEOUT)
                                THEN parseInt(env.API_TIMEOUT) ELSE NumberUndefined ],
      auth    |-> [ type |-> env.AUTH_TYPE, token |-> env.AUTH_TOKEN,
                    header |-> env.AUTH_HEADER, apiKeyHeader |-> env.API_KEY_HEADER ],
      options |-> [ refreshInterval |-> IF envTruthy(env.REFRESH_INTERVAL)
                                        THEN parseInt(env.REFRESH_INTERVAL)
                                        ELSE NumberUndefined,
                    logLevel |-> env.LOG_LEVEL,
                    enableRequestLogging |-> env.ENABLE_REQUEST_LOGGING = << "t","r","u","e" >> ] ]

\* z.number().positive() on a value that is set
notPositiveNumber(n) == n.kind = "number" /\ (n.nan \/ n.value <= 0)

\* A schema whose swagger object has no refinement
configIssuesWithoutRefine(raw) ==
    { issue \in { "swagger.url", "api.baseUrl", "api.timeout", "auth.type",
                  "options.refreshInterval", "options.logLevel" } :
        \/ issue = "swagger.url" /\ raw.swagger.url # Undefined /\ ~ isUrl(raw.swagger.url)
        \/ issue = "api.baseUrl" /\ raw.api.baseUrl # Undefined /\ ~ isUrl(raw.api.baseUrl)
        \/ issue = "api.timeout" /\ notPositiveNumber(raw.api.timeout)
        \/ issue = "auth.type" /\ raw.auth.type # Undefined /\ raw.auth.type \notin authTypes
        \/ issue = "options.refreshInterval" /\ notPositiveNumber(raw.options.refreshInterval)
        \/ issue = "options.logLevel" /\ raw.options.logLevel # Undefined
                                      /\ raw.options.logLevel \notin logLevels }

\* the issues configSchema.parse(rawConfig) finds: the paths of the fields
\* that fail, "swagger" for the refinement that a url or a path is given
configIssues(raw) ==
    { issue \in { "swagger", "swagger.url", "api.baseUrl", "api.timeout", "auth.type",
                  "options.refreshInterval", "options.logLevel" } :
        \/ issue = "swagger" /\ (raw.swagger.url = Undefined \/ isUrl(raw.swagger.url))
                             /\ ~ envTruthy(raw.swagger.url) /\ ~ envTruthy(raw.swagger.path)
        \/ issue = "swagger.url" /\ raw.swagger.url # Undefined /\ ~ isUrl(raw.swagger.url)
        \/ issue = "api.baseUrl" /\ raw.api.baseUrl # Undefined /\ ~ isUrl(raw.api.baseUrl)
        \/ issue = "api.timeout" /\ notPositiveNumber(raw.api.timeout)
        \/ issue = "auth.type" /\ raw.auth.type # Undefined /\ raw.auth.type \notin authTypes
        \/ issue = "options.refreshInterval" /\ notPositiveNumber(raw.options.refreshInterval)
        \/ issue = "options.logLevel" /\ raw.options.logLevel # Undefined
                                      /\ raw.options.logLevel \notin logLevels }

orDefault(value, default) == IF value = Undefined THEN default ELSE value
numberOrDefault(n, default) == IF n.kind = "undefined" THEN default ELSE n.value

\* loadConfig(): the Config, or the Error thrown for the issues of the schema
loadConfig(env) ==
    LET raw == rawConfig(env)
        issues == configIssues(raw)
    IN  IF issues # {}
        THEN [ threw |-> TRUE, issues |-> issues ]
        ELSE [ swagger |-> raw.swagger,
               api     |-> [ baseUrl |-> raw.api.baseUrl,
                             timeout |-> numberOrDefault(raw.api.timeout, defaultTimeout) ],
               auth    |-> [ type |-> orDefault(raw.auth.type, << "n","o","n","e" >>),
                             token |-> raw.auth.token,
                             header |-> orDefault(raw.auth.header, authorizationHeader),
                             apiKeyHeader |-> orDefault(raw.auth.apiKeyHeader, xApiKeyHeader) ],
               options |-> [ refreshInterval |-> numberOrDefault(raw.options.refreshInterval,
                                                                 defaultRefreshInterval),
                             logLevel |-> orDefault(raw.options.logLevel, << "i","n","f","o" >>),
                             enableRequestLogging |-> raw.options.enableRequestLogging ] ]

\* export const appConfig = loadConfig()
LoadConfig(env) ==
    /\ probe = NoProbe
    /\ probe' = [ fn |-> "loadConfig", env |-> env, config |-> loadConfig(env) ]
    /\ UNCHANGED << authManager, lastTokenUpdate >>
    /\ UNCHANGED << appConfig, startPc, swaggerDoc, apiProxy, tools, registered,
                    connected, timerActive, loads, nextLoadId, calls, lastResult,
                    unhandledRejection, process >>

-----------------------------------------------------------------------------
(* SchemaConverter.  The schemas of a document are the nodes of a heap,     *)
(* id -> node: a node names its sub-schemas (items, properties, members of  *)
(* a combinator) by id, so that a dereferenced document, whose objects can  *)
(* refer to themselves, is a heap with a cycle.  A keyword of a node is the *)
(* empty set when the node does not carry it and { value } when it does.    *)

absent == {}
has(keyword) == keyword # {}
the(keyword) == CHOOSE value \in keyword : TRUE

schemaNode ==
    [ ref |-> absent, allOf |-> absent, oneOf |-> absent, anyOf |-> absent,
      type |-> absent, format |-> absent, minLength |-> absent,
      maxLength |-> absent, pattern |-> absent, enum |-> absent,
      minimum |-> absent, maximum |-> absent, exclusiveMinimum |-> absent,
      exclusiveMaximum |-> absent, multipleOf |-> absent,
      items |-> absent, minItems |-> absent, maxItems |-> absent,
      uniqueItems |-> absent,
      properties |-> absent, required |-> absent,
      additionalProperties |-> absent ]

\* the constructor: each definition is registered under the legacy and under
\* the current token
definitionsPrefix == << "#","/","d","e","f","i","n","i","t","i","o","n","s","/" >>
componentsPrefix == << "#","/","c","o","m","p","o","n","e","n","t","s","/","s","c","h","e","m","a","s","/" >>
registry(definitions) ==
    [ token \in { definitionsPrefix \o name : name \in DOMAIN definitions }
                \cup { componentsPrefix \o name : name \in DOMAIN definitions } |->
        definitions[CHOOSE name \in DOMAIN definitions :
                        token \in { definitionsPrefix \o name, componentsPrefix \o name }] ]

\* resolveRef: this.refs.get(ref)
resolveRef(refs, ref) == IF ref \in DOMAIN refs THEN { refs[ref] } ELSE absent

\* the validators, and the two errors a conversion ends with: the SyntaxError
\* of new RegExp, and the RangeError of the engine when the recursion has
\* used up the call stack
zAny == [ kind |-> "any" ]
SyntaxError == [ threw |-> TRUE, error |-> "SyntaxError" ]
RangeError == [ threw |-> TRUE, error |-> "RangeError" ]
thrown(validator) == "threw" \in DOMAIN validator

\* the first exception of the conversions of a list, in the order they run
firstThrown(validators) ==
    LET failed == { k \in DOMAIN validators : thrown(validators[k]) }
    IN  IF failed = {} THEN absent
        ELSE { validators[CHOOSE k \in failed : \A j \in failed : k <= j] }

\* new RegExp(pattern) throws on a pattern that is no regular expression
invalidPattern == "("
regExpThrows(pattern) == pattern = invalidPattern
\* regex.test(value), for the patterns of the model: ^b
regExpTest(pattern, value) == startsWithChar(value, "b")

\* the formats convertString knows, by the zod check each selects
zodFormat(format) ==
    IF format = "email" THEN { "email" }
    ELSE IF format \in { "uri", "url" } THEN { "url" }
    ELSE IF format = "uuid" THEN { "uuid" }
    ELSE IF format \in { "date", "date-time" } THEN { "datetime" }
    ELSE absent

\* SchemaConverter.convertString
convertString(schema) ==
    IF has(schema.pattern) /\ regExpThrows(the(schema.pattern)) THEN SyntaxError
    ELSE IF has(schema.enum) THEN [ kind |-> "enum", values |-> the(schema.enum) ]
    ELSE [ kind |-> "string",
           format |-> IF has(schema.format) THEN zodFormat(the(schema.format)) ELSE absent,
           min |-> schema.minLength, max |-> schema.maxLength,
           pattern |-> schema.pattern ]

\* SchemaConverter.convertNumber and convertInteger
convertNumber(schema, integer) ==
    [ kind |-> "number", int |-> integer,
      minimum |-> schema.minimum, maximum |-> schema.maximum,
      exclusiveMinimum |-> has(schema.exclusiveMinimum) /\ the(schema.exclusiveMinimum),
      exclusiveMaximum |-> has(schema.exclusiveMaximum) /\ the(schema.exclusiveMaximum),
      multipleOf |-> IF integer THEN absent ELSE schema.multipleOf ]

\* convertAllOf / convertOneOf once the members are converted
foldMembers(kind, members) ==
    IF has(firstThrown(members)) THEN the(firstThrown(members))
    ELSE IF Len(members) = 0 THEN zAny
    ELSE IF Len(members) = 1 THEN members[1]
    ELSE [ kind |-> kind, members |-> members ]

\* SchemaConverter.convert(schema) with the registry refs, at the given depth
\* of the recursion.  A recursion deeper than the number of nodes of the heap
\* is at a node it is already converting: it goes on until the call stack is
\* used up and the engine throws a RangeError.
RECURSIVE convert(_, _, _, _)
convert(heap, refs, schema, depth) ==
    IF schema \notin DOMAIN heap THEN zAny
    ELSE IF depth > Cardinality(DOMAIN heap) THEN RangeError
    ELSE LET node == heap[schema]
             convertAll(members) ==
                 [ k \in DOMAIN members |->
                     convert(heap, refs, members[k], depth + 1) ]
         IN  IF has(node.ref)
             THEN IF has(resolveRef(refs, the(node.ref)))
                  THEN convert(heap, refs, the(resolveRef(refs, the(node.ref))),
                               depth + 1)
                  ELSE zAny
             ELSE IF has(node.allOf)
             THEN foldMembers("intersection", convertAll(the(node.allOf)))
             ELSE IF has(node.oneOf)
             THEN foldMembers("union", convertAll(the(node.oneOf)))
             ELSE IF has(node.anyOf)
             THEN foldMembers("union", convertAll(the(node.anyOf)))
             ELSE IF node.type = { "string" } THEN convertString(node)
             ELSE IF node.type = { "number" } THEN convertNumber(node, FALSE)
             ELSE IF node.type = { "integer" } THEN convertNumber(node, TRUE)
             ELSE IF node.type = { "boolean" } THEN [ kind |-> "boolean" ]
             ELSE IF node.type = { "array" }
             THEN LET itemsSchema == IF has(node.items)
                                     THEN convert(heap, refs, the(node.items), depth + 1)
                                     ELSE zAny
                  IN  IF thrown(itemsSchema) THEN itemsSchema
                      ELSE [ kind |-> "array", items |-> itemsSchema,
                             minItems |-> node.minItems, maxItems |-> node.maxItems,
                             uniqueItems |-> has(node.uniqueItems) /\ the(node.uniqueItems) ]
             ELSE IF node.type = { "object" } \/ (node.type \notin { { "null" } }
                                                  /\ has(node.properties))
             THEN LET properties == IF has(node.properties)
                                    THEN the(node.properties) ELSE << >>
                      shape == [ k \in DOMAIN properties |->
                                   convert(heap, refs, properties[k].schema, depth + 1) ]
                      additional == IF has(node.additionalProperties)
                                       /\ the(node.additionalProperties) \notin BOOLEAN
                                    THEN convert(heap, refs,
                                                 the(node.additionalProperties).schema,
                                                 depth + 1)
                                    ELSE zAny
                  IN  IF has(firstThrown(shape)) THEN the(firstThrown(shape))
                      ELSE IF thrown(additional) THEN additional
                      ELSE [ kind |-> "object",
                             shape |-> [ k \in DOMAIN properties |->
                                           [ key |-> properties[k].key,
                                             schema |-> shape[k],
                                             optional |-> ~ (has(node.required) /\
                                                 properties[k].key \in the(node.required)) ] ],
                             unknownKeys |-> IF node.additionalProperties = { FALSE }
                                             THEN "strict"
                                             ELSE IF has(node.additionalProperties)
                                             THEN "passthrough" ELSE "strip" ]
             ELSE IF node.type = { "null" } THEN [ kind |-> "null" ]
             ELSE zAny

\* whether the validator accepts a string value.  The values of the model
\* are made of letters only: none is an e-mail address, a URL, a UUID or a
\* date-time, so a validator with a format check accepts none of them.
RECURSIVE accepts(_, _)
accepts(validator, value) ==
    IF validator.kind = "any" THEN TRUE
    ELSE IF validator.kind = "enum" THEN value \in Range(validator.values)
    ELSE IF validator.kind = "string"
    THEN /\ ~ has(validator.format)
         /\ has(validator.min) => Len(value) >= the(validator.min)
         /\ has(validator.max) => Len(value) <= the(validator.max)
         /\ has(validator.pattern) => regExpTest(the(validator.pattern), value)
    ELSE IF validator.kind = "intersection"
    THEN \A k \in DOMAIN validator.members : accepts(validator.members[k], value)
    ELSE IF validator.kind = "union"
    THEN \E k \in DOMAIN validator.members : accepts(validator.members[k], value)
    ELSE FALSE

\* Schema nodes with string keywords, alone in their heap
valueA == << "a" >>
valueB == << "b" >>
StringValues == { valueA, valueB, << "c" >>, << "b","c" >>, << >> }
KeywordNodes ==
    { [ schemaNode EXCEPT !.type = t, !.format = f, !.minLength = lo,
                          !.maxLength = hi, !.pattern = p, !.enum = e ] :
        t \in { absent, { "string" }, { "number" } },
        f \in { absent, { "email" } },
        lo \in { absent, { 2 } },
        hi \in { absent, { 0 } },
        p \in { absent, { "^b" }, { invalidPattern } },
        e \in { absent, { << valueA, valueB >> } } }

\* Heaps of n nodes, each registered as a definition under its name: a string
\* node, a reference (to a definition by either token, or dangling), an
\* array of a node, an object with a property of a node, or a combinator
MaxSchemaNodes == 2
definitionName(k) == << "N" >> \o numberToString(k)
danglingRef == << "#","/","x" >>
GraphNodes(n) ==
    { [ schemaNode EXCEPT !.type = { "string" } ] }
    \cup { [ schemaNode EXCEPT !.ref = { definitionsPrefix \o definitionName(k) } ] :
             k \in 1..n }
    \cup { [ schemaNode EXCEPT !.ref = { token } ] :
             token \in { componentsPrefix \o definitionName(1), danglingRef } }
    \cup { [ schemaNode EXCEPT !.type = { "array" }, !.items = { k } ] : k \in 1..n }
    \cup { [ schemaNode EXCEPT !.type = { "object" },
                               !.properties = { << [ key |-> idName, schema |-> k ] >> } ] :
             k \in 1..n }
    \cup { [ schemaNode EXCEPT !.allOf = { members } ] :
             members \in { << >>, << 1 >>, << 1, 2 >> } }
    \cup { [ schemaNode EXCEPT !.oneOf = { << 1, 2 >> } ],
           [ schemaNode EXCEPT !.anyOf = { << 2 >> } ] }
GraphHeaps(n) == [ 1..n -> GraphNodes(n) ]
definitionsOf(heap) ==
    [ name \in { definitionName(k) : k \in DOMAIN heap } |->
        CHOOSE k \in DOMAIN heap : definitionName(k) = name ]

\* new SchemaConverter(definitions).convert(schema), for the schema at node 1
Convert(heap) ==
    /\ probe = NoProbe
    /\ probe' = [ fn |-> "convert", heap |-> heap,
                  validator |-> convert(heap, registry(definitionsOf(heap)), 1, 1) ]
    /\ UNCHANGED << authManager, lastTokenUpdate >>
    /\ UNCHANGED << appConfig, startPc, swaggerDoc, apiProxy, tools, registered,
                    connected, timerActive, loads, nextLoadId, calls, lastResult,
                    unhandledRejection, process >>

NextComponents ==
    \/ /\ probe = NoProbe
       /\ \E operation \in RequestOperations :
             \E params \in ValidatedInputs(operation), outcome \in HttpOutcomes :
                Execute(operation, params, outcome)
    \/ /\ probe = NoProbe
       /\ \E operation \in NamingOperations : GenerateToolName(operation)
    \/ /\ probe = NoProbe
       /\ \E document \in HostDocuments(MaxHostLength) : FixHostFieldFormat(document)
    \/ /\ probe = NoProbe
       /\ \E document \in ThrowDocuments(MaxThrowPaths)
                              \cup ParameterDocuments(MaxParameters) :
             LoadSwaggerDocument(document)
    \/ /\ probe = NoProbe
       /\ \E env \in Environments : LoadConfig(env)
    \/ /\ probe = NoProbe
       /\ \E heap \in { (1 :> node) : node \in KeywordNodes }
                       \cup GraphHeaps(MaxSchemaNodes) : Convert(heap)

SpecComponents == InitComponents /\ [][NextComponents]_vars

-----------------------------------------------------------------------------
(* The token specification: the lifecycle on one document, with            *)
(* AuthManager.updateToken called at any time.                             *)

NextToken ==
    \/ Start
    \/ \E l \in loads : FetchOk(l, DocumentA)
    \/ \E l \in loads : ValidateOk(l)
    \/ Connect
    \/ TimerFire
    \/ \E name \in DOMAIN registered : Invoke(name, "accepted")
    \/ \E c \in calls : Respond(c, "response")
    \/ \E token \in TokenUpdates : UpdateToken(token)

SpecToken == InitComponents /\ [][NextToken]_vars

-----------------------------------------------------------------------------
(* Properties of the lifecycle specification (Spec)                          *)

\* C3: every invocation dispatches its request from one generation: the
\* Operation it executes and the ApiProxy (base URL) it goes through were
\* built by the same load of the document.
C3_InvocationUsesOneGeneration ==
    \A c \in calls : c.operationLoad = c.proxyLoad

\* the tools the MCP server holds handlers for are those of this.tools, by
\* name and by the Operation bound to the name
servesBuiltTools ==
    /\ DOMAIN registered = DOMAIN tools
    /\ \A n \in DOMAIN registered : registered[n].operation = tools[n].operation

\* C4: once a reload has completed, the tools offered and executed at the
\* invocation boundary are those of the generation the reload built.
C4_ReloadReplacesServedTools ==
    (swaggerDoc # NoDoc /\ startPc \in { "connecting", "ready" })
        => servesBuiltTools

\* the step in which the fetch of a reload rejects
reloadFetchFails ==
    \E l \in loads : l.kind = "reload" /\ l.pos = "fetch" /\ loads' = loads \ { l }

\* C5: a reload whose fetch fails leaves the operation list, the base URL /
\* ApiProxy and the registry as they were, and the tools served before remain
\* invocable.
C5_FailedFetchLeavesToolsServable ==
    [][ reloadFetchFails =>
          /\ UNCHANGED << swaggerDoc, apiProxy, tools, registered, connected >>
          /\ process' = "running" ]_vars

\* C6: the failure of a reload is handled inside the coordinator: no rejection
\* leaves the timer callback unhandled, and the process goes on.
C6_ReloadFailureHandledInside ==
    /\ unhandledRejection = FALSE
    /\ process = "running"

\* C7: every invocation the handler takes resolves to a success payload or to
\* an error payload with isError set; the handler never throws or rejects.
C7_HandlerNeverThrows ==
    /\ lastResult.kind \in { "none", "payload" }
    /\ lastResult.kind = "payload" =>
          (lastResult.isError <=> lastResult.cause # "none")

\* an invocation with arguments the input schema rejects came back as an
\* error payload
C7_ValidationFailureReturned ==
    /\ lastResult.kind = "payload"
    /\ lastResult.isError
    /\ lastResult.cause = "validation"

\* C8: when the first load fails start() rejects with nothing registered, no
\* timer and no transport; tools are registered, the transport connected and
\* invocations handled only once a load has fully succeeded.
C8_NothingServedBeforeFirstLoad ==
    /\ startPc = "failed" =>
          (~ connected /\ registered = EmptyMap /\ ~ timerActive)
    /\ (startPc \in { "connecting", "ready" } \/ connected
          \/ registered # EmptyMap \/ timerActive
          \/ calls # {} \/ lastResult # NoResult)
          => (swaggerDoc # NoDoc /\ apiProxy # NoProxy)

\* the first load failed and start() rejected
C8_FirstLoadFailed ==
    /\ startPc = "failed"
    /\ swaggerDoc = NoDoc
    /\ loads = {}

-----------------------------------------------------------------------------
(* Properties of the first-load specification (SpecFirstLoad)                *)

\* the operations of the loaded document whose tool generation succeeds
generatedOperations ==
    SelectSeq(swaggerDoc.operations, LAMBDA o : ~ o.convertThrows)

\* C1: after a generation pass every operation whose generation succeeded has
\* a registry entry of its own under a name no other operation holds, so the
\* registry is as large as the number of those operations.
C1_EveryOperationOwnsAnEntry ==
    swaggerDoc # NoDoc =>
        /\ Cardinality(DOMAIN tools) = Len(generatedOperations)
        /\ \A x \in DOMAIN generatedOperations :
              \E n \in DOMAIN tools : tools[n].operation = generatedOperations[x]

\* C2: after a generation pass every name of the registry is at most 64
\* characters long, suffixed names included.
C2_NamesWithinMaxLength ==
    \A n \in DOMAIN tools : Len(n) <= maxLength /\ Len(tools[n].name) <= maxLength

\* C9: the repair pass keeps the operations of the document, makes the declared
\* operationIds pairwise distinct, keeps the first occurrence of each
\* identifier and renames each later one '<id>_<n>', n the first number from 2
\* on that collides with no original and no already assigned identifier.
C9_RepairMakesDeclaredIdsDistinct ==
    \A l \in loads : l.pos = "validate" =>
        LET places == traversal(l.fetched, methodsOpenApi3)
            orig(k) == operationAt(l.fetched, places[k][1], places[k][2]).operationId
            new(k) == operationAt(l.document, places[k][1], places[k][2]).operationId
            originals == { orig(k) : k \in DOMAIN places } \ { << >> }
            taken(k) == originals \cup { new(j) : j \in 1..(k - 1) }
        IN  /\ traversal(l.document, methodsOpenApi3) = places
            /\ \A j, k \in DOMAIN places :
                  (j # k /\ new(j) # << >> /\ new(k) # << >>) => new(j) # new(k)
            /\ \A k \in DOMAIN places :
                  IF orig(k) = << >>
                  THEN new(k) = << >>
                  ELSE IF \A j \in 1..(k - 1) : orig(j) # orig(k)
                  THEN new(k) = orig(k)
                  ELSE \E n \in 2..(Len(places) + 2) :
                          /\ new(k) = withSuffix(orig(k), n)
                          /\ withSuffix(orig(k), n) \notin taken(k)
                          /\ \A m \in 2..(n - 1) : withSuffix(orig(k), m) \in taken(k)

\* C10: in the operation list of a loaded document no two Operations have the
\* same operationId, synthesized identifiers and every extracted verb included.
C10_OperationIdsUnique ==
    swaggerDoc # NoDoc =>
        \A x, y \in DOMAIN swaggerDoc.operations :
            x # y => swaggerDoc.operations[x].operationId
                         # swaggerDoc.operations[y].operationId

-----------------------------------------------------------------------------
(* Properties of the component specification (SpecComponents)               *)

\* ApiProxy.execute was applied and buildRequestConfig gave a configuration
requestBuilt == probe.fn = "execute" /\ "threw" \notin DOMAIN probe.config

\* the declared parameters of a location that the input supplies
suppliedParameters(operation, params, in) ==
    { operation.parameters[i].name : i \in
        { j \in DOMAIN operation.parameters :
            /\ operation.parameters[j].in = in
            /\ operation.parameters[j].name \in DOMAIN params } }

\* the path template with the placeholder segment of every supplied path
\* parameter replaced by the percent-encoded value
substitutedPath(operation, params) ==
    LET segments == split(operation.path, "/")
        supplied == suppliedParameters(operation, params, "path")
    IN  join([ i \in 1..Len(segments) |->
                 IF \E n \in supplied : segments[i] = placeholder(n)
                 THEN encodeURIComponent(
                          params[CHOOSE n \in supplied : segments[i] = placeholder(n)])
                 ELSE segments[i] ],
             << "/" >>)

\* C11: for every operation and validated input, the built request has the
\* '{name}' placeholder of each supplied path parameter replaced by its
\* percent-encoded value, and no input key that names a declared path,
\* query, header or cookie parameter contributes anything to the request body.
C11_DeclaredParametersStayOutOfBody ==
    requestBuilt =>
        /\ probe.config.url = substitutedPath(probe.operation, probe.params)
        /\ probe.config.data.kind = "object" =>
              \A k \in DOMAIN probe.config.data.fields :
                  ~isHandledParam(probe.operation, k)
        /\ probe.config.data.kind = "value" =>
              ~isHandledParam(probe.operation, bodyName)

\* the object of all supplied input keys that no declared parameter claims
foldedBody(operation, params) ==
    LET keys == { k \in DOMAIN params : ~isHandledParam(operation, k) }
    IN  IF keys = {} THEN NoData
        ELSE [ kind |-> "object", fields |-> [ k \in keys |-> params[k] ] ]

\* C12: for an operation that declares a request body, the body of the
\* request is the value of the synthetic 'body' key, verbatim, when the input
\* shape has that synthetic key and it is supplied, and otherwise the object
\* of all supplied input keys no declared parameter claims; an input shape
\* built by splicing the fields of an object body is always sent folded.
C12_BodyIsSyntheticValueOrFold ==
    (requestBuilt /\ probe.operation.requestBody # NoBody) =>
        LET shape == generateInputSchema(probe.operation)
            synthetic == /\ bodyName \in DOMAIN shape
                         /\ shape[bodyName].from = "syntheticBody"
                         /\ bodyName \in DOMAIN probe.params
        IN  probe.config.data =
                IF synthetic
                THEN [ kind |-> "value", value |-> probe.params[bodyName] ]
                ELSE foldedBody(probe.operation, probe.params)

\* the header an auth configuration sets and the value it gives it
authSetsHeader(authConfig) ==
    /\ authConfig.type \in { "bearer", "apikey", "basic" }
    /\ authConfig.token # << >>
    /\ authConfig.type = "apikey" => authConfig.apiKeyHeader # << >>
authHeaderName(authConfig) ==
    IF authConfig.type = "apikey" THEN authConfig.apiKeyHeader ELSE authConfig.header
credentialsOf(type, token) ==
    IF type = "bearer" THEN << "B","e","a","r","e","r"," " >> \o token
    ELSE IF type = "basic"
    THEN << "B","a","s","i","c"," " >> \o toBase64(token)
    ELSE token

\* C13: authentication is applied after all parameters: when the auth mode
\* sets a header and the operation has a header parameter of the same name
\* with a supplied value, the request carries the auth-derived value in that
\* header, not the parameter's value.
C13_AuthOverridesHeaderParameter ==
    ( /\ requestBuilt
      /\ authSetsHeader(probe.authConfig)
      /\ authHeaderName(probe.authConfig)
            \in suppliedParameters(probe.operation, probe.params, "header") )
    => /\ authHeaderName(probe.authConfig) \in DOMAIN probe.config.headers
       /\ probe.config.headers[authHeaderName(probe.authConfig)] =
              credentialsOf(probe.authConfig.type, probe.authConfig.token)

\* a bearer token and a supplied Authorization header parameter met, and so
\* did an api key and a supplied X-API-Key header parameter
C13_BearerMetAuthorizationParameter ==
    /\ requestBuilt
    /\ probe.authConfig.type = "bearer" /\ probe.authConfig.token = tokenA
    /\ authorizationHeader \in DOMAIN probe.params
    /\ probe.params[authorizationHeader] = << "a","/","b" >>
    /\ authorizationHeader \in
           suppliedParameters(probe.operation, probe.params, "header")
    /\ probe.config.headers[authorizationHeader] =
           << "B","e","a","r","e","r"," ","u",":","p" >>

\* C14: every request built for a GET operation carries no Content-Type
\* header, whatever parameters the operation declares and whatever input is
\* supplied; a request built for another method carries Content-Type
\* application/json unless a Content-Type was already set.
C14_GetCarriesNoContentType ==
    requestBuilt =>
        IF probe.config.method = getMethod
        THEN contentTypeHeader \notin DOMAIN probe.config.headers
        ELSE /\ contentTypeHeader \in DOMAIN probe.config.headers
             /\ contentTypeHeader \notin
                    suppliedParameters(probe.operation, probe.params, "header")
                => probe.config.headers[contentTypeHeader] = applicationJson

C17_AtMostOneRequest ==
    probe.fn = "execute" =>
        /\ probe.requestCalls <= 1
        /\ probe.failure # "none" =>
              probe.requestCalls = IF "threw" \in DOMAIN probe.config THEN 0 ELSE 1

\* a request that got no response was reported after its single dispatch
C17_NoResponseReportedOnce ==
    /\ probe.fn = "execute"
    /\ probe.failure = "noResponseReceived"
    /\ probe.requestCalls = 1


\* s.endsWith(p)
endsWith(s, p) ==
    Len(p) <= Len(s) /\ SubSeq(s, Len(s) - Len(p) + 1, Len(s)) = p

\* generateToolName was applied to an operation named from its method and path
nameFromPath ==
    /\ probe.fn = "generateToolName"
    /\ ~includes(probe.operation.operationId, "-")

\* the name the README format gives: the method and every path segment, a
\* parameter segment '{x}' as 'x', lower-cased, joined by '-', cleaned
methodPathName(operation) ==
    LET segments == SelectSeq(split(operation.path, "/"), LAMBDA p : Len(p) > 0)
        bare(p) == IF startsWithChar(p, "{") /\ endsWithChar(p, "}")
                   THEN SubSeq(p, 2, Len(p) - 1) ELSE p
    IN  trimHyphens(collapseHyphens(removeInvalidChars(
            join(<< toLowerCase(operation.method) >>
                 \o [ i \in 1..Len(segments) |-> toLowerCase(bare(segments[i])) ],
                 << "-" >>))))

\* C18: for an operation whose operationId contains no hyphen, the tool name
\* is the lower-cased method followed, in path order and joined by '-', by
\* every path segment lower-cased, a parameter segment '{x}' contributing 'x'
\* and no segment dropped (POST /api/Auth/SignIn gives post-api-auth-signin),
\* unless the result exceeds 64 characters.
C18_NameIsMethodAndEverySegment ==
    (nameFromPath /\ Len(methodPathName(probe.operation)) <= maxLength)
        => probe.name = methodPathName(probe.operation)

\* the segments of the path the name is made of, and the name before it is
\* shortened
namedSegments(operation) ==
    SelectSeq(split(operation.path, "/"),
              LAMBDA p : /\ Len(p) > 0
                         /\ toLowerCase(p) \notin commonApiPrefixes
                         /\ ~(startsWithChar(p, "{") /\ endsWithChar(p, "}")))
cleaned(s) == trimHyphens(collapseHyphens(removeInvalidChars(toLowerCase(s))))
fullName(operation) ==
    cleaned(join(<< operation.method >> \o namedSegments(operation), << "-" >>))

\* C19: whenever a tool name is shortened to meet the 64-character bound and
\* its method segment and its final path segment are each shorter than the
\* bound, the shortened name begins with the complete method segment and
\* ends with the complete final path segment.
C19_ShorteningKeepsMethodAndFinalSegment ==
    ( /\ nameFromPath
      /\ namedSegments(probe.operation) # << >>
      /\ Len(fullName(probe.operation)) > maxLength
      /\ Len(cleaned(probe.operation.method)) < maxLength
      /\ Len(cleaned(namedSegments(probe.operation)[
                         Len(namedSegments(probe.operation))])) < maxLength )
    => /\ startsWith(probe.name, cleaned(probe.operation.method) \o << "-" >>)
       /\ endsWith(probe.name,
                   << "-" >> \o cleaned(namedSegments(probe.operation)[
                                            Len(namedSegments(probe.operation))]))


\* s with every '/' that follows a '/' left out
RECURSIVE withoutRepeatedSlashes(_)
withoutRepeatedSlashes(s) ==
    IF Len(s) <= 1 THEN s
    ELSE IF s[1] = "/" /\ s[2] = "/" THEN withoutRepeatedSlashes(Tail(s))
    ELSE << s[1] >> \o withoutRepeatedSlashes(Tail(s))

\* C20: for every 2.0 document whose host contains '/', the host repair sets
\* host to the part before the first '/' (so it contains no '/') and basePath
\* to '/' + the remainder followed by the previous basePath, every run of '/'
\* collapsed to one; documents of other dialects and hosts without '/' are
\* left unchanged.
C20_HostRepairSplitsAtFirstSlash ==
    probe.fn = "fixHostFieldFormat" =>
        LET document == probe.document
            slash == firstIndexOf(document.host, << "/" >>)
        IN  IF document.swagger = << "2",".","0" >> /\ slash > 0
            THEN /\ probe.repaired.host = SubSeq(document.host, 1, slash - 1)
                 /\ ~includes(probe.repaired.host, "/")
                 /\ probe.repaired.basePath =
                        withoutRepeatedSlashes(
                            << "/" >>
                            \o SubSeq(document.host, slash + 1, Len(document.host))
                            \o document.basePath)
                 /\ probe.repaired =
                        [ document EXCEPT !.host = probe.repaired.host,
                                          !.basePath = probe.repaired.basePath ]
            ELSE probe.repaired = document

\* the example: host 'web.example.com/sub/path' with basePath '/v1' was
\* repaired to host 'web.example.com' and basePath '/sub/path/v1'
C20_ExampleHostRepaired ==
    /\ probe.fn = "fixHostFieldFormat"
    /\ probe.document.swagger = << "2",".","0" >>
    /\ probe.document.host = exampleHost
    /\ probe.document.basePath = << "/","v","1" >>
    /\ probe.repaired.host = << "w","e","b",".","e","x","a","m","p","l","e",".","c","o","m" >>
    /\ probe.repaired.basePath = << "/","s","u","b","/","p","a","t","h","/","v","1" >>

-----------------------------------------------------------------------------
(* Properties of the token specification (SpecToken)                        *)

\* the request of a dispatched invocation carries the credentials derived
\* from the token
carriesCredentials(c, token) ==
    /\ authHeaderName(authManager) \in DOMAIN c.request.headers
    /\ c.request.headers[authHeaderName(authManager)] =
           credentialsOf(authManager.type, token)

\* C15 as stated: after updateToken(t), every request built afterwards
\* carries the credentials derived from t (Bearer t, the api-key header set to
\* t, or Basic base64(t)), also after a later reload.
C15_UpdatedTokenInEveryRequest ==
    \A c \in calls :
        (c.tokenUpdate.called /\ authManager.type # "none")
            => carriesCredentials(c, c.tokenUpdate.token)

\* C15, amended: in the bearer or basic mode, or in the apikey mode with a
\* non-empty api-key header name, after updateToken(t) with a non-empty t
\* every request built afterwards carries the credentials derived from t,
\* without a new ApiProxy, and also when a later reload has built a new one.
C15_NonEmptyTokenInEveryRequest ==
    \A c \in calls :
        ( /\ c.tokenUpdate.called
          /\ c.tokenUpdate.token # << >>
          /\ authManager.type \in { "bearer", "apikey", "basic" }
          /\ authManager.type = "apikey" => authManager.apiKeyHeader # << >> )
            => carriesCredentials(c, c.tokenUpdate.token)

\* the token was updated, a reload built a new ApiProxy, and a request built
\* through it carries the Basic credentials of the updated token
C15_RequestAfterUpdateAndReload ==
    \E c \in calls :
        /\ c.tokenUpdate.called /\ c.tokenUpdate.token = tokenB
        /\ c.proxyLoad >= 2
        /\ authManager.type = "basic"
        /\ c.request.headers[authorizationHeader] =
               << "B","a","s","i","c"," ","a","z","I","=" >>


-----------------------------------------------------------------------------
(* Claims about the generations a running server publishes (Spec)          *)

\* C21: when a base-URL override is configured, after the first load and
\* after every successful reload the base URL of the SwaggerDocument and of
\* the ApiProxy is the override (without its trailing slash), and every
\* request in flight was dispatched against it, never against the base URL
\* extracted from the document.
C21_OverrideIsDispatchBaseUrl ==
    appConfig.apiBaseUrl # << >> =>
        /\ swaggerDoc # NoDoc => swaggerDoc.baseUrl = appConfig.apiBaseUrl
        /\ apiProxy # NoProxy =>
               apiProxy.baseUrl = normalizeBaseUrl(appConfig.apiBaseUrl)
        /\ \A c \in calls : c.baseUrl = normalizeBaseUrl(appConfig.apiBaseUrl)

\* a reload has completed under the override and a request is in flight
C21_ReloadedUnderOverride ==
    /\ appConfig.apiBaseUrl = urlOverride
    /\ swaggerDoc # NoDoc
    /\ swaggerDoc.load > 1
    /\ apiProxy.load = swaggerDoc.load
    /\ calls # {}

\* C24: at every point where a handler can run (between two suspension
\* points) the registry this.tools, the operation list of this.swaggerDoc and
\* the base URL of this.apiProxy belong to one load: a reload has replaced
\* none of the three or all three, and the registry is the complete registry
\* generated from the operation list, never cleared or partly rebuilt.
C24_GenerationPublishedWhole ==
    IF swaggerDoc = NoDoc
    THEN apiProxy = NoProxy /\ tools = EmptyMap
    ELSE /\ apiProxy # NoProxy
         /\ apiProxy.load = swaggerDoc.load
         /\ apiProxy.baseUrl = normalizeBaseUrl(swaggerDoc.baseUrl)
         /\ \A n \in DOMAIN tools : tools[n].load = swaggerDoc.load
         /\ DOMAIN tools = DOMAIN generateTools(swaggerDoc.operations)
         /\ \A n \in DOMAIN tools :
                tools[n].operation = generateTools(swaggerDoc.operations)[n].operation

\* a reload has replaced the generation while an invocation is suspended on
\* its request and a further reload is suspended on its fetch or validation
C24_ReloadedDuringInvocation ==
    /\ swaggerDoc # NoDoc
    /\ swaggerDoc.load > 1
    /\ DOMAIN tools # {}
    /\ \E c \in calls : c.proxyLoad < swaggerDoc.load
    /\ loads # {}

\* C25: a reload that publishes its generation started later than the load
\* whose generation it replaces (loads are numbered in the order they start),
\* so that of two overlapping reloads the one that started last is the one
\* left published.
C25_LaterStartedReloadWins ==
    [][ (swaggerDoc # NoDoc /\ swaggerDoc' # swaggerDoc)
            => swaggerDoc'.load > swaggerDoc.load ]_vars

-----------------------------------------------------------------------------
(* Claims about a generation pass in which tool generation throws          *)
(* (SpecComponents)                                                        *)

notThrowing(operations) == SelectSeq(operations, LAMBDA o : ~ o.convertThrows)

\* the document without the operations whose tool generation throws
withoutThrowing(document) ==
    [ document EXCEPT !.paths =
        [ i \in DOMAIN document.paths |->
            [ path |-> document.paths[i].path,
              ops  |-> [ m \in { v \in DOMAIN document.paths[i].ops :
                                    ~ document.paths[i].ops[v].convertThrows } |->
                           document.paths[i].ops[m] ] ] ] ]

\* C26 as stated: when tool generation throws for operations of a document,
\* no tool of the registry is bound to them and the registry holds every
\* other operation under the name and with the content that loading the
\* document without those operations gives.
C26_AsIfFailingOperationNotInDocument ==
    probe.fn = "loadSwaggerDocument" =>
        /\ \A n \in DOMAIN probe.tools : ~ probe.tools[n].operation.convertThrows
        /\ probe.tools = loadSwaggerDocument(withoutThrowing(probe.document)).tools

\* C26, amended: when tool generation throws for operations of the parsed
\* operation list, no tool of the registry is bound to them and the registry
\* is the one the generation pass builds from the operation list without
\* them: every other operation has the name and content it has in that pass.
C26_AsIfFailingOperationNotInOperationList ==
    probe.fn = "loadSwaggerDocument" =>
        /\ \A n \in DOMAIN probe.tools : ~ probe.tools[n].operation.convertThrows
        /\ probe.tools = generateTools(notThrowing(probe.operations))

\* tool generation threw for an operation between two operations that were
\* registered, the later under a suffixed name
C26_ThrowBetweenRegisteredOperations ==
    /\ probe.fn = "loadSwaggerDocument"
    /\ \E i, j, k \in DOMAIN probe.operations :
          /\ i < j /\ j < k
          /\ ~ probe.operations[i].convertThrows
          /\ probe.operations[j].convertThrows
          /\ ~ probe.operations[k].convertThrows
          /\ \E n, m \in DOMAIN probe.tools :
                /\ n # m
                /\ probe.tools[n].operation = probe.operations[i]
                /\ probe.tools[m].operation = probe.operations[k]
                /\ Len(m) > Len(generateToolName(probe.operations[k]))

-----------------------------------------------------------------------------
(* Claims about the configuration (SpecComponents)                         *)

\* C22: REFRESH_INTERVAL=0 is accepted: when the environment is valid with
\* REFRESH_INTERVAL unset, it is valid with REFRESH_INTERVAL=0 too and the
\* configuration loaded has the refresh interval 0, with which start()
\* installs no timer.
C22_ZeroIntervalAccepted ==
    ( /\ probe.fn = "loadConfig"
      /\ probe.env.REFRESH_INTERVAL = << "0" >>
      /\ "threw" \notin DOMAIN loadConfig([ probe.env EXCEPT !.REFRESH_INTERVAL = Undefined ]) )
    => /\ "threw" \notin DOMAIN probe.config
       /\ probe.config.options.refreshInterval = 0

\* C23: loadConfig() throws when neither SWAGGER_URL nor SWAGGER_PATH is set
\* to a non-empty string, and every configuration it returns names a
\* document source, a URL or a path.
C23_NoSourceNoConfiguration ==
    probe.fn = "loadConfig" =>
        /\ ( ~ envTruthy(probe.env.SWAGGER_URL) /\ ~ envTruthy(probe.env.SWAGGER_PATH) )
              => "threw" \in DOMAIN probe.config
        /\ "threw" \notin DOMAIN probe.config
              => \/ envTruthy(probe.config.swagger.url)
                 \/ envTruthy(probe.config.swagger.path)

\* loadConfig() threw for the missing source alone
C23_ThrewForMissingSource ==
    /\ probe.fn = "loadConfig"
    /\ probe.env.SWAGGER_URL = Undefined
    /\ probe.env.SWAGGER_PATH = Undefined
    /\ "threw" \in DOMAIN probe.config
    /\ probe.config.issues = { "swagger" }

-----------------------------------------------------------------------------
(* Claims about the parameters of the normalized operations                *)
(* (SpecComponents)                                                        *)

\* the parameters the document declares for operation x of the list: those of
\* its path item and those of the operation itself
declaredAt(document, x, level) ==
    LET verbs == IF detectVersion(document) = "2.0" THEN methods ELSE methodsOpenApi3
        place == traversal(document, verbs)[x]
    IN  IF level = "path-level" THEN pathParameters(document, place[1])
        ELSE operationAt(document, place[1], place[2]).parameters

\* the last parameter of the list with the location and name of param
lastWithKey(parameters, param) ==
    parameters[CHOOSE k \in DOMAIN parameters :
                  /\ parameters[k].in = param.in /\ parameters[k].name = param.name
                  /\ \A j \in DOMAIN parameters :
                        (parameters[j].in = param.in /\ parameters[j].name = param.name)
                            => j <= k]

hasKey(parameters, param) ==
    \E k \in DOMAIN parameters :
        parameters[k].in = param.in /\ parameters[k].name = param.name

\* C27: every parameter of every Operation of the parsed list, in both
\* dialects, has one of the locations path, query, header, cookie.
C27_ParameterLocationsNormalized ==
    probe.fn = "loadSwaggerDocument" =>
        \A x \in DOMAIN probe.operations :
            \A k \in DOMAIN probe.operations[x].parameters :
                probe.operations[x].parameters[k].in
                    \in { "path", "query", "header", "cookie" }

\* C28: the parameter list of every Operation of the parsed list, in both
\* dialects, has at most one entry per (location, name); the entry is the
\* operation-level declaration when there is one, and the path-level
\* declaration otherwise.
C28_OneEntryPerLocationAndName ==
    probe.fn = "loadSwaggerDocument" =>
        \A x \in DOMAIN probe.operations :
            LET parameters == probe.operations[x].parameters
                atPath == declaredAt(probe.document, x, "path-level")
                atOperation == declaredAt(probe.document, x, "operation-level")
            IN  /\ \A j, k \in DOMAIN parameters :
                      (parameters[j].in = parameters[k].in
                       /\ parameters[j].name = parameters[k].name) => j = k
                /\ \A k \in DOMAIN parameters :
                      IF hasKey(atOperation, parameters[k])
                      THEN parameters[k] = lastWithKey(atOperation, parameters[k])
                      ELSE /\ hasKey(atPath, parameters[k])
                           /\ parameters[k] = lastWithKey(atPath, parameters[k])
                /\ \A level \in { "path-level", "operation-level" } :
                      \A k \in DOMAIN declaredAt(probe.document, x, level) :
                          LET param == declaredAt(probe.document, x, level)[k]
                          IN  param.in # "body" => hasKey(parameters, param)

\* a path-level and an operation-level parameter share location and name, and
\* the list has a further parameter
C28_OperationLevelOverrodePathLevel ==
    /\ probe.fn = "loadSwaggerDocument"
    /\ \E x \in DOMAIN probe.operations :
          /\ \E k \in DOMAIN declaredAt(probe.document, x, "path-level") :
                /\ hasKey(declaredAt(probe.document, x, "operation-level"),
                          declaredAt(probe.document, x, "path-level")[k])
                /\ hasKey(probe.operations[x].parameters,
                          declaredAt(probe.document, x, "path-level")[k])
          /\ Len(probe.operations[x].parameters) > 1

-----------------------------------------------------------------------------
(* Claims about the schema conversion (SpecComponents)                     *)

\* C29: for every schema node that carries enum ["a","b"], whatever other
\* keywords it carries, the conversion gives a validator, and of the string
\* values the validator accepts "a" and "b" and no other.
C29_EnumAcceptsExactlyItsValues ==
    ( /\ probe.fn = "convert"
      /\ probe.heap[1].enum = { << valueA, valueB >> } )
    => /\ ~ thrown(probe.validator)
       /\ \A value \in StringValues :
             accepts(probe.validator, value) <=> value \in { valueA, valueB }

\* C30: the conversion of every schema node with every registry returns: it
\* never recurses until the call stack is used up.
C30_ConvertReturns ==
    probe.fn = "convert" => probe.validator # RangeError

====
